---------------------------- MODULE Spec2Model ----------------------------
(***************************************************************************)
(* Pledge lifecycle and reward-tier allocation of the crowdfunding back    *)
(* end (fundraisers/views.py, serializers.py, utils.py, models.py).        *)
(*                                                                         *)
(* The entity store is modelled table by table: every table is a function  *)
(* from the ids of its live rows to the row's columns.  One-to-one detail  *)
(* rows (MoneyPledge, TimePledge, ItemPledge, TimeNeed, ItemNeed) are      *)
(* keyed by the id of the row they are attached to.  Every HTTP handler is *)
(* one action; `last` records the operation and status code of the last    *)
(* request.                                                                *)
(***************************************************************************)
EXTENDS Integers, FiniteSets, Sequences, TLC

VARIABLES
    fundraiser,     \* Fundraiser rows:  id -> [owner, title]
    rewardTier,     \* RewardTier rows:  id -> [fundraiser, reward_type, minimum_contribution_value]
    need,           \* Need rows:        id -> [fundraiser, need_type]
    moneyNeed,      \* MoneyNeed rows:   need id -> [target_amount]
    timeNeed,       \* TimeNeed rows:    need id -> [reward_tier]
    itemNeed,       \* ItemNeed rows:    need id -> [mode, donation_reward_tier, loan_reward_tier]
    pledge,         \* Pledge rows:      id -> [supporter, fundraiser, need, status, reward_tier]
    moneyPledge,    \* MoneyPledge rows: pledge id -> [amount]
    timePledge,     \* TimePledge rows:  pledge id -> [start_datetime, end_datetime]
    itemPledge,     \* ItemPledge rows:  pledge id -> [quantity, mode]
    template,       \* FundraiserTemplate rows: id -> [is_active, title, reward_tiers, needs]
    last,           \* the last request: [op, code]
    call,           \* arguments and outcome of a direct call of a utils.py function
    req             \* in-flight requests of the concurrent money-pledge scenario

store == <<fundraiser, rewardTier, need, moneyNeed, timeNeed, itemNeed, template,
           pledge, moneyPledge, timePledge, itemPledge>>
vars == <<fundraiser, rewardTier, need, moneyNeed, timeNeed, itemNeed, template,
          pledge, moneyPledge, timePledge, itemPledge, last, call, req>>

---------------------------------------------------------------------------
(* Bounds of the model *)

MaxPledges == 2
MaxAmount == 2
\* tier tables and totals of the direct calls of the tier selection
MaxTiers == 3
MaxMinimum == 2
MaxTotal == 3
\* requests in flight at once
MaxRequests == 2
\* rows of the Need table
MaxNeeds == 2

---------------------------------------------------------------------------
(* Values *)

\* A null column.  Ids start at 1 and decimals at 0, so -1 is no column value.
NULL == -1

Users == {"u1", "u2"}
\* request.user of a request without credentials
Anonymous == "anon"
Actors == Users \cup {Anonymous}

PledgeIds == 1..MaxPledges
RequestIds == 1..MaxRequests
NeedIds == 1..MaxNeeds
TierIds == 1..MaxTiers
FundraiserIds == {1, 2}
\* amounts a request may carry; 0 stands for the rejected "<= 0" inputs
Amounts == 0..MaxAmount

STATUS_CHOICES == {"pending", "approved", "declined", "cancelled"}
REWARD_TYPE_CHOICES == {"money", "time", "item"}
ItemPledge_MODE_CHOICES == {"donation", "loan"}
ItemNeed_MODE_CHOICES == {"donation", "loan", "either"}
TYPE_CHOICES == {"money", "time", "item"}

NoCall == [fn |-> "none"]
NoRequests == <<>>
Boot == [op |-> "boot", code |-> 0]

\* f without the row k
Remove(f, k) == [x \in DOMAIN f \ {k} |-> f[x]]
\* f with the row k set to r (inserted when absent)
Put(f, k, r) == [x \in DOMAIN f \cup {k} |-> IF x = k THEN r ELSE f[x]]

\* the id the store gives the next Pledge row
NewPledgeId == CHOOSE p \in PledgeIds \ DOMAIN pledge :
                   \A q \in PledgeIds \ DOMAIN pledge : p <= q

RECURSIVE SumOver(_, _)
SumOver(S, f) == IF S = {} THEN 0
                 ELSE LET x == CHOOSE y \in S : TRUE
                      IN f[x].amount + SumOver(S \ {x}, f)

---------------------------------------------------------------------------
(* utils.py *)

\* ensure_allowed_transition: "ok" when it returns, else the detail of the
\* ValidationError it raises.
ensure_allowed_transition_owner_cancels_any(current, target, actor_role) ==
    IF actor_role = "supporter" THEN
        IF target = "cancelled" THEN
            IF current # "pending"
            THEN "Supporters can only cancel pending pledges."
            ELSE "ok"
        ELSE "Supporters cannot approve/decline pledges."
    ELSE IF actor_role = "owner" THEN
        IF target = "approved" THEN
            IF current # "pending" THEN "Only pending pledges can be approved." ELSE "ok"
        ELSE IF target = "declined" THEN
            IF current # "pending" THEN "Only pending pledges can be declined." ELSE "ok"
        ELSE IF target = "cancelled" THEN "ok"
        ELSE "Unknown target status."
    ELSE "Invalid actor role."

ensure_allowed_transition(current, target, actor_role) ==
    IF actor_role = "supporter" THEN
        IF target = "cancelled" THEN
            IF current # "pending"
            THEN "Supporters can only cancel pending pledges."
            ELSE "ok"
        ELSE "Supporters cannot approve/decline pledges."
    ELSE IF actor_role = "owner" THEN
        IF target = "approved" THEN
            IF current # "pending" THEN "Only pending pledges can be approved." ELSE "ok"
        ELSE IF target = "declined" THEN
            IF current # "pending" THEN "Only pending pledges can be declined." ELSE "ok"
        ELSE IF target = "cancelled" THEN
            IF current \notin {"pending", "approved"}
            THEN "Only pending or approved pledges can be cancelled."
            ELSE "ok"
        ELSE "Unknown target status."
    ELSE "Invalid actor role."

\* a sum that counts only the approved pledges
total_money_approved_only(pl, mp, supporter, fr) ==
    SumOver({p \in DOMAIN mp : /\ pl[p].supporter = supporter /\ pl[p].fundraiser = fr
                               /\ pl[p].status = "approved"}, mp)

\* a sum that counts only the pledges that carry no tier yet
total_money_untiered_only(pl, mp, supporter, fr) ==
    SumOver({p \in DOMAIN mp : /\ pl[p].supporter = supporter /\ pl[p].fundraiser = fr
                               /\ pl[p].reward_tier = NULL}, mp)

\* utils.py 24-29: Sum("amount") over the MoneyPledge rows of the pair, 0 when none
total_money(pl, mp, supporter, fr) ==
    SumOver({p \in DOMAIN mp : pl[p].supporter = supporter /\ pl[p].fundraiser = fr}, mp)

\* utils.py 31-40: the filtered, ordered RewardTier query and .first()
qualifying_tiers(tiers, fr, total) ==
    {t \in DOMAIN tiers :
        /\ tiers[t].fundraiser = fr
        /\ tiers[t].reward_type = "money"
        /\ tiers[t].minimum_contribution_value # NULL
        /\ tiers[t].minimum_contribution_value <= total}

\* an ordering whose tie-break between equal minimums takes the lower id
select_reward_tier_lower_id_on_tie(tiers, fr, total) ==
    LET Q == qualifying_tiers(tiers, fr, total)
        m(t) == tiers[t].minimum_contribution_value
    IN IF Q = {} THEN NULL
       ELSE CHOOSE t \in Q : \A o \in Q : m(o) < m(t) \/ (m(o) = m(t) /\ o >= t)

select_reward_tier(tiers, fr, total) ==
    LET Q == qualifying_tiers(tiers, fr, total)
        m(t) == tiers[t].minimum_contribution_value
    IN IF Q = {} THEN NULL
       ELSE CHOOSE t \in Q : \A o \in Q : m(o) < m(t) \/ (m(o) = m(t) /\ o <= t)

\* a bulk update that fills unset tiers only and never replaces one
write_reward_tier_unset_only(pl, mp, supporter, fr, tier) ==
    [p \in DOMAIN pl |->
        IF /\ pl[p].supporter = supporter /\ pl[p].fundraiser = fr /\ p \in DOMAIN mp
           /\ pl[p].reward_tier = NULL
        THEN [pl[p] EXCEPT !.reward_tier = tier]
        ELSE pl[p]]

\* utils.py 42-46: the bulk update of the pair's money pledges
write_reward_tier(pl, mp, supporter, fr, tier) ==
    [p \in DOMAIN pl |->
        IF pl[p].supporter = supporter /\ pl[p].fundraiser = fr /\ p \in DOMAIN mp
        THEN [pl[p] EXCEPT !.reward_tier = tier]
        ELSE pl[p]]

\* update_reward_tiers_for_supporter_and_fundraiser: the Pledge table it leaves
update_reward_tiers_for_supporter_and_fundraiser(pl, mp, tiers, supporter, fr) ==
    write_reward_tier(pl, mp, supporter, fr,
        select_reward_tier(tiers, fr, total_money(pl, mp, supporter, fr)))

---------------------------------------------------------------------------
(* Responses *)

\* the request answers `code` and changes no row
Reject(op, code) ==
    /\ last' = [op |-> op, code |-> code]
    /\ UNCHANGED <<store, call, req>>

\* the request answers `code` after writing Pledge and pledge-detail tables
Reply(op, code) ==
    /\ last' = [op |-> op, code |-> code]
    /\ UNCHANGED <<fundraiser, rewardTier, need, moneyNeed, timeNeed, itemNeed, template, call, req>>

\* permissions.py: the object-level predicates, for an unsafe method
IsSupporterOrReadOnly(u, pl) == u # Anonymous /\ pl.supporter = u
IsFundraiserOwner(u, pl) == u # Anonymous /\ fundraiser[pl.fundraiser].owner = u
IsSupporterOrFundraiserOwner(u, pl) ==
    u # Anonymous /\ (pl.supporter = u \/ fundraiser[pl.fundraiser].owner = u)

---------------------------------------------------------------------------
(* views.py: Pledge rows *)

\* PledgeList.post.  status, need and reward_tier are writable serializer
\* fields ("__all__"); the row is saved with them.  The handler then calls
\* fundraiser.refresh_from_db(fields=["require_pledge_approval"]), a field
\* the Fundraiser model does not declare: the call raises after the row is
\* committed (autocommit), so the request answers 500 and the row stays.
PledgeList_post(u, fr, nd, st, tier) ==
    IF u = Anonymous THEN Reject("PledgeList.post", 401)
    ELSE IF fr = NULL \/ DOMAIN pledge = PledgeIds
        THEN Reject("PledgeList.post", 400)
    ELSE /\ pledge' = Put(pledge, NewPledgeId,
                [supporter |-> u, fundraiser |-> fr, need |-> nd,
                 status |-> st, reward_tier |-> tier])
         /\ UNCHANGED <<moneyPledge, timePledge, itemPledge>>
         /\ Reply("PledgeList.post", 500)

\* PledgeDetail.put: a partial update by the supporter through
\* PledgeDetailSerializer.  status and reward_tier are writable ("__all__");
\* fundraiser and need are StringRelatedField there, hence read-only.  An
\* absent field is the stored value.
PledgeDetail_put(u, p, st, tier) ==
    IF u = Anonymous THEN Reject("PledgeDetail.put", 401)
    ELSE IF p \notin DOMAIN pledge THEN Reject("PledgeDetail.put", 404)
    ELSE IF ~IsSupporterOrReadOnly(u, pledge[p]) THEN Reject("PledgeDetail.put", 403)
    ELSE /\ pledge' = [pledge EXCEPT ![p].status = st, ![p].reward_tier = tier]
         /\ UNCHANGED <<moneyPledge, timePledge, itemPledge>>
         /\ Reply("PledgeDetail.put", 200)

\* PledgeDetail.delete: the row and, by cascade, its detail rows
PledgeDetail_delete(u, p) ==
    IF u = Anonymous THEN Reject("PledgeDetail.delete", 401)
    ELSE IF p \notin DOMAIN pledge THEN Reject("PledgeDetail.delete", 404)
    ELSE IF ~IsSupporterOrReadOnly(u, pledge[p]) THEN Reject("PledgeDetail.delete", 403)
    ELSE IF pledge[p].status # "pending" THEN Reject("PledgeDetail.delete", 400)
    ELSE /\ pledge' = Remove(pledge, p)
         /\ moneyPledge' = Remove(moneyPledge, p)
         /\ timePledge' = Remove(timePledge, p)
         /\ itemPledge' = Remove(itemPledge, p)
         /\ Reply("PledgeDetail.delete", 204)

\* The module defines PledgeCancel, PledgeApprove and PledgeDecline twice
\* (lines 255-308 and 2135-2216).  The later class statements rebind the
\* names, so views.PledgeCancel etc. are the later definitions: these.
PledgeCancel_post(u, p) ==
    IF u = Anonymous THEN Reject("PledgeCancel.post", 401)
    ELSE IF p \notin DOMAIN pledge THEN Reject("PledgeCancel.post", 404)
    ELSE LET is_supporter == pledge[p].supporter = u
             is_owner == fundraiser[pledge[p].fundraiser].owner = u
         IN IF ~(is_supporter \/ is_owner) THEN Reject("PledgeCancel.post", 403)
            ELSE IF is_supporter /\ pledge[p].status # "pending"
                THEN Reject("PledgeCancel.post", 400)
            ELSE /\ pledge' = [pledge EXCEPT ![p].status = "cancelled"]
                 /\ UNCHANGED <<moneyPledge, timePledge, itemPledge>>
                 /\ Reply("PledgeCancel.post", 200)

PledgeApprove_post(u, p) ==
    IF u = Anonymous THEN Reject("PledgeApprove.post", 401)
    ELSE IF p \notin DOMAIN pledge THEN Reject("PledgeApprove.post", 404)
    ELSE IF fundraiser[pledge[p].fundraiser].owner # u
        THEN Reject("PledgeApprove.post", 403)
    ELSE /\ pledge' = [pledge EXCEPT ![p].status = "approved"]
         /\ UNCHANGED <<moneyPledge, timePledge, itemPledge>>
         /\ Reply("PledgeApprove.post", 200)

PledgeDecline_post(u, p) ==
    IF u = Anonymous THEN Reject("PledgeDecline.post", 401)
    ELSE IF p \notin DOMAIN pledge THEN Reject("PledgeDecline.post", 404)
    ELSE IF fundraiser[pledge[p].fundraiser].owner # u
        THEN Reject("PledgeDecline.post", 403)
    ELSE /\ pledge' = [pledge EXCEPT ![p].status = "declined"]
         /\ UNCHANGED <<moneyPledge, timePledge, itemPledge>>
         /\ Reply("PledgeDecline.post", 200)

---------------------------------------------------------------------------
(* views.py, serializers.py: MoneyPledge rows *)

\* MoneyPledgeSerializer.create / update: the row is written, then
\* _update_rewards recomputes the tier of the pledge's supporter and fundraiser
MoneyPledgeSerializer_save(p, amount) ==
    LET mp == Put(moneyPledge, p, [amount |-> amount])
    IN /\ moneyPledge' = mp
       /\ pledge' = update_reward_tiers_for_supporter_and_fundraiser(
                        pledge, mp, rewardTier, pledge[p].supporter, pledge[p].fundraiser)

\* MoneyPledgeList.post.  is_valid: the pledge exists, has no MoneyPledge yet
\* (one-to-one) and amount > 0.
MoneyPledgeList_post(u, p, amount) ==
    IF u = Anonymous THEN Reject("MoneyPledgeList.post", 401)
    ELSE IF p \notin DOMAIN pledge \/ p \in DOMAIN moneyPledge \/ amount <= 0
        THEN Reject("MoneyPledgeList.post", 400)
    ELSE IF ~IsSupporterOrReadOnly(u, pledge[p]) THEN Reject("MoneyPledgeList.post", 403)
    ELSE /\ MoneyPledgeSerializer_save(p, amount)
         /\ UNCHANGED <<timePledge, itemPledge>>
         /\ Reply("MoneyPledgeList.post", 201)

\* MoneyPledgeDetail.put on the MoneyPledge of pledge p: a partial update of
\* pledge (to q) and amount; an absent field is the stored value.
MoneyPledgeDetail_put(u, p, q, amount) ==
    IF u = Anonymous THEN Reject("MoneyPledgeDetail.put", 401)
    ELSE IF p \notin DOMAIN moneyPledge THEN Reject("MoneyPledgeDetail.put", 404)
    ELSE IF ~IsSupporterOrReadOnly(u, pledge[p]) THEN Reject("MoneyPledgeDetail.put", 403)
    ELSE IF q \notin DOMAIN pledge \/ (q # p /\ q \in DOMAIN moneyPledge) \/ amount <= 0
        THEN Reject("MoneyPledgeDetail.put", 400)
    ELSE IF ~IsSupporterOrReadOnly(u, pledge[q]) THEN Reject("MoneyPledgeDetail.put", 403)
    ELSE LET mp == Put(Remove(moneyPledge, p), q, [amount |-> amount])
         IN /\ moneyPledge' = mp
            /\ pledge' = update_reward_tiers_for_supporter_and_fundraiser(
                             pledge, mp, rewardTier, pledge[q].supporter, pledge[q].fundraiser)
            /\ UNCHANGED <<timePledge, itemPledge>>
            /\ Reply("MoneyPledgeDetail.put", 200)

\* a delete that does not look at the pledge's status
MoneyPledgeDetail_delete_any_status(u, p) ==
    IF u = Anonymous THEN Reject("MoneyPledgeDetail.delete", 401)
    ELSE IF p \notin DOMAIN moneyPledge THEN Reject("MoneyPledgeDetail.delete", 404)
    ELSE IF ~IsSupporterOrReadOnly(u, pledge[p]) THEN Reject("MoneyPledgeDetail.delete", 403)
    ELSE /\ moneyPledge' = Remove(moneyPledge, p)
         /\ UNCHANGED <<pledge, timePledge, itemPledge>>
         /\ Reply("MoneyPledgeDetail.delete", 204)

\* MoneyPledgeDetail.delete: the detail row alone; no recomputation follows
MoneyPledgeDetail_delete(u, p) ==
    IF u = Anonymous THEN Reject("MoneyPledgeDetail.delete", 401)
    ELSE IF p \notin DOMAIN moneyPledge THEN Reject("MoneyPledgeDetail.delete", 404)
    ELSE IF ~IsSupporterOrReadOnly(u, pledge[p]) THEN Reject("MoneyPledgeDetail.delete", 403)
    ELSE IF pledge[p].status # "pending" THEN Reject("MoneyPledgeDetail.delete", 400)
    ELSE /\ moneyPledge' = Remove(moneyPledge, p)
         /\ UNCHANGED <<pledge, timePledge, itemPledge>>
         /\ Reply("MoneyPledgeDetail.delete", 204)

\* ItemPledgeDetail.delete: the detail row alone
ItemPledgeDetail_delete(u, p) ==
    IF u = Anonymous THEN Reject("ItemPledgeDetail.delete", 401)
    ELSE IF p \notin DOMAIN itemPledge THEN Reject("ItemPledgeDetail.delete", 404)
    ELSE IF ~IsSupporterOrReadOnly(u, pledge[p]) THEN Reject("ItemPledgeDetail.delete", 403)
    ELSE IF pledge[p].status # "pending" THEN Reject("ItemPledgeDetail.delete", 400)
    ELSE /\ itemPledge' = Remove(itemPledge, p)
         /\ UNCHANGED <<pledge, moneyPledge, timePledge>>
         /\ Reply("ItemPledgeDetail.delete", 204)

---------------------------------------------------------------------------
(* MoneyPledgeList.post, statement by statement.  The view and the          *)
(* serializer open no transaction and take no lock, so every query of a    *)
(* request commits on its own and the queries of other requests run in     *)
(* between.  req[r] is request r: its user, pledge and amount, the place   *)
(* it has reached (pc), and the locals total_money and reward_tier of      *)
(* update_reward_tiers_for_supporter_and_fundraiser.                       *)

InFlight == {r \in DOMAIN req : req[r].pc # "done"}

Advance(r, pc) == req' = [req EXCEPT ![r].pc = pc]

\* views.py 683-688: is_valid and check_object_permissions of a new request
MoneyPledgeList_post_is_valid(u, p, amount) ==
    /\ DOMAIN req # RequestIds
    /\ IF u = Anonymous
       THEN last' = [op |-> "MoneyPledgeList.post", code |-> 401] /\ UNCHANGED req
       ELSE IF p \notin DOMAIN pledge \/ p \in DOMAIN moneyPledge \/ amount <= 0
       THEN last' = [op |-> "MoneyPledgeList.post", code |-> 400] /\ UNCHANGED req
       ELSE IF ~IsSupporterOrReadOnly(u, pledge[p])
       THEN last' = [op |-> "MoneyPledgeList.post", code |-> 403] /\ UNCHANGED req
       ELSE /\ req' = Put(req, Cardinality(DOMAIN req) + 1,
                        [user |-> u, pledge |-> p, amount |-> amount, pc |-> "create",
                         total_money |-> NULL, reward_tier |-> NULL])
            /\ UNCHANGED last
    /\ UNCHANGED <<store, call>>

\* serializers.py 185: super().create, the INSERT.  The one-to-one column is
\* unique: a second row for the pledge raises IntegrityError (answer 500).
MoneyPledgeSerializer_create(r) ==
    /\ r \in DOMAIN req /\ req[r].pc = "create"
    /\ IF req[r].pledge \in DOMAIN moneyPledge
       THEN /\ Advance(r, "done")
            /\ last' = [op |-> "MoneyPledgeList.post", code |-> 500]
            /\ UNCHANGED store
       ELSE /\ moneyPledge' = Put(moneyPledge, req[r].pledge, [amount |-> req[r].amount])
            /\ Advance(r, "total_money")
            /\ UNCHANGED <<fundraiser, rewardTier, need, moneyNeed, timeNeed, itemNeed, template,
                           pledge, timePledge, itemPledge, last>>
    /\ UNCHANGED call

\* utils.py 24-29: the aggregate query
update_reward_tiers_total_money(r) ==
    /\ r \in DOMAIN req /\ req[r].pc = "total_money"
    /\ req' = [req EXCEPT ![r].pc = "reward_tier",
                          ![r].total_money =
                              total_money(pledge, moneyPledge, pledge[req[r].pledge].supporter,
                                          pledge[req[r].pledge].fundraiser)]
    /\ UNCHANGED <<store, last, call>>

\* utils.py 31-40: the tier query, on the local total_money
update_reward_tiers_reward_tier(r) ==
    /\ r \in DOMAIN req /\ req[r].pc = "reward_tier"
    /\ req' = [req EXCEPT ![r].pc = "update",
                          ![r].reward_tier =
                              select_reward_tier(rewardTier, pledge[req[r].pledge].fundraiser,
                                                 req[r].total_money)]
    /\ UNCHANGED <<store, last, call>>

\* utils.py 42-46: the bulk update with the local reward_tier; the view then
\* answers 201
update_reward_tiers_update(r) ==
    /\ r \in DOMAIN req /\ req[r].pc = "update"
    /\ pledge' = write_reward_tier(pledge, moneyPledge, pledge[req[r].pledge].supporter,
                                   pledge[req[r].pledge].fundraiser, req[r].reward_tier)
    /\ Advance(r, "done")
    /\ last' = [op |-> "MoneyPledgeList.post", code |-> 201]
    /\ UNCHANGED <<fundraiser, rewardTier, need, moneyNeed, timeNeed, itemNeed, template,
                   moneyPledge, timePledge, itemPledge, call>>

---------------------------------------------------------------------------
(* views.py, serializers.py: TimePledge rows *)

\* an assignment that spares a pledge whose reward_tier is already set
TimePledgeSerializer_apply_reward_tier_if_unset(pl, p) ==
    LET nd == pl[p].need
    IN IF nd = NULL THEN pl
       ELSE IF nd \notin DOMAIN timeNeed THEN pl
       ELSE IF timeNeed[nd].reward_tier # NULL /\ pl[p].reward_tier = NULL
            THEN [pl EXCEPT ![p].reward_tier = timeNeed[nd].reward_tier]
            ELSE pl

\* TimePledgeSerializer._apply_reward_tier on the TimePledge of pledge p: the
\* Pledge table it leaves.  It returns early without a need or without the
\* need's time_detail, and saves the need's reward_tier when there is one.
TimePledgeSerializer_apply_reward_tier(pl, p) ==
    LET nd == pl[p].need
    IN IF nd = NULL THEN pl
       ELSE IF nd \notin DOMAIN timeNeed THEN pl
       ELSE IF timeNeed[nd].reward_tier # NULL
            THEN [pl EXCEPT ![p].reward_tier = timeNeed[nd].reward_tier]
            ELSE pl

\* TimePledgeList.post.  is_valid: the pledge exists, has no TimePledge yet
\* (one-to-one) and end_datetime is after start_datetime.
TimePledgeList_post(u, p, start, end) ==
    IF u = Anonymous THEN Reject("TimePledgeList.post", 401)
    ELSE IF p \notin DOMAIN pledge \/ p \in DOMAIN timePledge \/ end <= start
        THEN Reject("TimePledgeList.post", 400)
    ELSE IF ~IsSupporterOrReadOnly(u, pledge[p]) THEN Reject("TimePledgeList.post", 403)
    ELSE /\ timePledge' = Put(timePledge, p,
                              [start_datetime |-> start, end_datetime |-> end])
         /\ pledge' = TimePledgeSerializer_apply_reward_tier(pledge, p)
         /\ UNCHANGED <<moneyPledge, itemPledge>>
         /\ Reply("TimePledgeList.post", 201)

\* an update that does not compare the two datetimes
TimePledgeDetail_put_unvalidated(u, p, q, start, end) ==
    IF u = Anonymous THEN Reject("TimePledgeDetail.put", 401)
    ELSE IF p \notin DOMAIN timePledge THEN Reject("TimePledgeDetail.put", 404)
    ELSE IF ~IsSupporterOrReadOnly(u, pledge[p]) THEN Reject("TimePledgeDetail.put", 403)
    ELSE IF q \notin DOMAIN pledge \/ (q # p /\ q \in DOMAIN timePledge)
        THEN Reject("TimePledgeDetail.put", 400)
    ELSE IF ~IsSupporterOrReadOnly(u, pledge[q]) THEN Reject("TimePledgeDetail.put", 403)
    ELSE /\ timePledge' = Put(Remove(timePledge, p), q,
                              [start_datetime |-> start, end_datetime |-> end])
         /\ pledge' = TimePledgeSerializer_apply_reward_tier(pledge, q)
         /\ UNCHANGED <<moneyPledge, itemPledge>>
         /\ Reply("TimePledgeDetail.put", 200)

\* TimePledgeDetail.put on the TimePledge of pledge p: a partial update of
\* pledge (to q), start_datetime and end_datetime; an absent field is the
\* stored value.
TimePledgeDetail_put(u, p, q, start, end) ==
    IF u = Anonymous THEN Reject("TimePledgeDetail.put", 401)
    ELSE IF p \notin DOMAIN timePledge THEN Reject("TimePledgeDetail.put", 404)
    ELSE IF ~IsSupporterOrReadOnly(u, pledge[p]) THEN Reject("TimePledgeDetail.put", 403)
    ELSE IF q \notin DOMAIN pledge \/ (q # p /\ q \in DOMAIN timePledge) \/ end <= start
        THEN Reject("TimePledgeDetail.put", 400)
    ELSE IF ~IsSupporterOrReadOnly(u, pledge[q]) THEN Reject("TimePledgeDetail.put", 403)
    ELSE /\ timePledge' = Put(Remove(timePledge, p), q,
                              [start_datetime |-> start, end_datetime |-> end])
         /\ pledge' = TimePledgeSerializer_apply_reward_tier(pledge, q)
         /\ UNCHANGED <<moneyPledge, itemPledge>>
         /\ Reply("TimePledgeDetail.put", 200)

\* TimePledgeDetail.delete: the detail row alone
TimePledgeDetail_delete(u, p) ==
    IF u = Anonymous THEN Reject("TimePledgeDetail.delete", 401)
    ELSE IF p \notin DOMAIN timePledge THEN Reject("TimePledgeDetail.delete", 404)
    ELSE IF ~IsSupporterOrReadOnly(u, pledge[p]) THEN Reject("TimePledgeDetail.delete", 403)
    ELSE IF pledge[p].status # "pending" THEN Reject("TimePledgeDetail.delete", 400)
    ELSE /\ timePledge' = Remove(timePledge, p)
         /\ UNCHANGED <<pledge, moneyPledge, itemPledge>>
         /\ Reply("TimePledgeDetail.delete", 204)

---------------------------------------------------------------------------
(* views.py, serializers.py: ItemPledge rows *)

\* ItemPledgeSerializer._update_rewards for the ItemPledge row ip of pledge p:
\* the Pledge table it leaves.  The mode is the row's, or the need's when the
\* row has none ("").
ItemPledgeSerializer_update_rewards(pl, p, ip) ==
    LET nd == pl[p].need
    IN IF nd = NULL THEN pl
       ELSE IF nd \notin DOMAIN itemNeed THEN pl
       ELSE LET mode == IF ip.mode # "" THEN ip.mode ELSE itemNeed[nd].mode
                tier == IF mode = "donation" THEN itemNeed[nd].donation_reward_tier
                        ELSE IF mode = "loan" THEN itemNeed[nd].loan_reward_tier
                        ELSE NULL
            IN IF tier # NULL THEN [pl EXCEPT ![p].reward_tier = tier] ELSE pl

\* a lookup that takes the tier of the other mode
ItemPledge_sync_reward_tier_modes_swapped(pl, p, ip) ==
    LET nd == pl[p].need
    IN IF nd # NULL /\ need[nd].need_type = "item" /\ nd \in DOMAIN itemNeed
       THEN LET tier == IF ip.mode = "donation" THEN itemNeed[nd].loan_reward_tier
                        ELSE IF ip.mode = "loan" THEN itemNeed[nd].donation_reward_tier
                        ELSE NULL
            IN IF tier # NULL THEN [pl EXCEPT ![p].reward_tier = tier] ELSE pl
       ELSE pl

\* the lines ItemPledgeList.post (835-855) and ItemPledgeDetail.put (898-913)
\* both run after serializer.save(): pledge.reward_tier from the ItemNeed of
\* an "item" need and the row's mode
ItemPledge_sync_reward_tier(pl, p, ip) ==
    LET nd == pl[p].need
    IN IF nd # NULL /\ need[nd].need_type = "item" /\ nd \in DOMAIN itemNeed
       THEN LET tier == IF ip.mode = "donation" THEN itemNeed[nd].donation_reward_tier
                        ELSE IF ip.mode = "loan" THEN itemNeed[nd].loan_reward_tier
                        ELSE NULL
            IN IF tier # NULL THEN [pl EXCEPT ![p].reward_tier = tier] ELSE pl
       ELSE pl

\* ItemPledgeList.post.  is_valid: the pledge exists, has no ItemPledge yet
\* (one-to-one), quantity > 0 and mode is one of ItemPledge.MODE_CHOICES.
ItemPledgeList_post(u, p, quantity, mode) ==
    IF u = Anonymous THEN Reject("ItemPledgeList.post", 401)
    ELSE IF \/ p \notin DOMAIN pledge \/ p \in DOMAIN itemPledge
            \/ quantity <= 0 \/ mode \notin ItemPledge_MODE_CHOICES
        THEN Reject("ItemPledgeList.post", 400)
    ELSE IF ~IsSupporterOrReadOnly(u, pledge[p]) THEN Reject("ItemPledgeList.post", 403)
    ELSE LET ip == [quantity |-> quantity, mode |-> mode]
         IN /\ itemPledge' = Put(itemPledge, p, ip)
            /\ pledge' = ItemPledge_sync_reward_tier(
                             ItemPledgeSerializer_update_rewards(pledge, p, ip), p, ip)
            /\ UNCHANGED <<moneyPledge, timePledge>>
            /\ Reply("ItemPledgeList.post", 201)

\* ItemPledgeDetail.put on the ItemPledge of pledge p: a partial update of
\* pledge (to q), quantity and mode; an absent field is the stored value.
ItemPledgeDetail_put(u, p, q, quantity, mode) ==
    IF u = Anonymous THEN Reject("ItemPledgeDetail.put", 401)
    ELSE IF p \notin DOMAIN itemPledge THEN Reject("ItemPledgeDetail.put", 404)
    ELSE IF ~IsSupporterOrReadOnly(u, pledge[p]) THEN Reject("ItemPledgeDetail.put", 403)
    ELSE IF \/ q \notin DOMAIN pledge \/ (q # p /\ q \in DOMAIN itemPledge)
            \/ quantity <= 0 \/ mode \notin ItemPledge_MODE_CHOICES
        THEN Reject("ItemPledgeDetail.put", 400)
    ELSE IF ~IsSupporterOrReadOnly(u, pledge[q]) THEN Reject("ItemPledgeDetail.put", 403)
    ELSE LET ip == [quantity |-> quantity, mode |-> mode]
         IN /\ itemPledge' = Put(Remove(itemPledge, p), q, ip)
            /\ pledge' = ItemPledge_sync_reward_tier(
                             ItemPledgeSerializer_update_rewards(pledge, q, ip), q, ip)
            /\ UNCHANGED <<moneyPledge, timePledge>>
            /\ Reply("ItemPledgeDetail.put", 200)

---------------------------------------------------------------------------
(* views.py: Fundraiser, Need, need detail and RewardTier rows *)

\* the request answers `code`; the handler says which tables it leaves alone
Answer(op, code) ==
    /\ last' = [op |-> op, code |-> code]
    /\ UNCHANGED <<call, req>>

\* permissions.py IsOwnerOrReadOnly for an unsafe method, on the Fundraiser
\* fr or on a row chained under it
IsOwnerOrReadOnly(u, fr) == u # Anonymous /\ fundraiser[fr].owner = u

NewId(Ids, table) == CHOOSE i \in Ids \ DOMAIN table : \A j \in Ids \ DOMAIN table : i <= j

\* on_delete=SET_NULL of a reference to one of the deleted tiers
SetNull(ref, deleted) == IF ref \in deleted THEN NULL ELSE ref

\* the tables after the rows of `needs` and of `tiers` are deleted:
\* on_delete=CASCADE takes the need details and the pledges of the needs with
\* their details, on_delete=SET_NULL clears the references to the tiers
Cascade(needs, tiers) ==
    LET gone == {p \in DOMAIN pledge : pledge[p].need \in needs}
    IN /\ need' = [n \in DOMAIN need \ needs |-> need[n]]
       /\ moneyNeed' = [n \in DOMAIN moneyNeed \ needs |-> moneyNeed[n]]
       /\ timeNeed' = [n \in DOMAIN timeNeed \ needs |->
                          [reward_tier |-> SetNull(timeNeed[n].reward_tier, tiers)]]
       /\ itemNeed' = [n \in DOMAIN itemNeed \ needs |->
                          [itemNeed[n] EXCEPT
                              !.donation_reward_tier = SetNull(@, tiers),
                              !.loan_reward_tier = SetNull(@, tiers)]]
       /\ rewardTier' = [t \in DOMAIN rewardTier \ tiers |-> rewardTier[t]]
       /\ pledge' = [p \in DOMAIN pledge \ gone |->
                        [pledge[p] EXCEPT !.reward_tier = SetNull(@, tiers)]]
       /\ moneyPledge' = [p \in DOMAIN moneyPledge \ gone |-> moneyPledge[p]]
       /\ timePledge' = [p \in DOMAIN timePledge \ gone |-> timePledge[p]]
       /\ itemPledge' = [p \in DOMAIN itemPledge \ gone |-> itemPledge[p]]

\* FundraiserList.post: any signed-in user; the owner is the user
FundraiserList_post(u, title) ==
    IF u = Anonymous THEN Reject("FundraiserList.post", 401)
    ELSE IF DOMAIN fundraiser = FundraiserIds THEN Reject("FundraiserList.post", 400)
    ELSE /\ fundraiser' = Put(fundraiser, NewId(FundraiserIds, fundraiser),
                              [owner |-> u, title |-> title])
         /\ UNCHANGED <<rewardTier, need, moneyNeed, timeNeed, itemNeed, template,
                        pledge, moneyPledge, timePledge, itemPledge>>
         /\ Answer("FundraiserList.post", 201)

\* FundraiserDetail.put: a partial update; owner is read-only
FundraiserDetail_put(u, f, title) ==
    IF u = Anonymous THEN Reject("FundraiserDetail.put", 401)
    ELSE IF f \notin DOMAIN fundraiser THEN Reject("FundraiserDetail.put", 404)
    ELSE IF ~IsOwnerOrReadOnly(u, f) THEN Reject("FundraiserDetail.put", 403)
    ELSE /\ fundraiser' = [fundraiser EXCEPT ![f].title = title]
         /\ UNCHANGED <<rewardTier, need, moneyNeed, timeNeed, itemNeed, template,
                        pledge, moneyPledge, timePledge, itemPledge>>
         /\ Answer("FundraiserDetail.put", 200)

\* a delete that does not look for pledges: the cascade takes them
FundraiserDetail_delete_with_pledges(u, f) ==
    IF u = Anonymous THEN Reject("FundraiserDetail.delete", 401)
    ELSE IF f \notin DOMAIN fundraiser THEN Reject("FundraiserDetail.delete", 404)
    ELSE IF ~IsOwnerOrReadOnly(u, f) THEN Reject("FundraiserDetail.delete", 403)
    ELSE LET own == {p \in DOMAIN pledge : pledge[p].fundraiser = f}
             needs == {n \in DOMAIN need : need[n].fundraiser = f}
             gone == own \cup {p \in DOMAIN pledge : pledge[p].need \in needs}
             tiers == {t \in DOMAIN rewardTier : rewardTier[t].fundraiser = f}
         IN /\ fundraiser' = Remove(fundraiser, f)
            /\ need' = [n \in DOMAIN need \ needs |-> need[n]]
            /\ moneyNeed' = [n \in DOMAIN moneyNeed \ needs |-> moneyNeed[n]]
            /\ timeNeed' = [n \in DOMAIN timeNeed \ needs |->
                               [reward_tier |-> SetNull(timeNeed[n].reward_tier, tiers)]]
            /\ itemNeed' = [n \in DOMAIN itemNeed \ needs |->
                               [itemNeed[n] EXCEPT
                                   !.donation_reward_tier = SetNull(@, tiers),
                                   !.loan_reward_tier = SetNull(@, tiers)]]
            /\ rewardTier' = [t \in DOMAIN rewardTier \ tiers |-> rewardTier[t]]
            /\ pledge' = [p \in DOMAIN pledge \ gone |->
                             [pledge[p] EXCEPT !.reward_tier = SetNull(@, tiers)]]
            /\ moneyPledge' = [p \in DOMAIN moneyPledge \ gone |-> moneyPledge[p]]
            /\ timePledge' = [p \in DOMAIN timePledge \ gone |-> timePledge[p]]
            /\ itemPledge' = [p \in DOMAIN itemPledge \ gone |-> itemPledge[p]]
            /\ UNCHANGED template
            /\ Answer("FundraiserDetail.delete", 204)

\* FundraiserDetail.delete: refused while fundraiser.pledges exists; else the
\* row goes with its needs and reward tiers
FundraiserDetail_delete(u, f) ==
    IF u = Anonymous THEN Reject("FundraiserDetail.delete", 401)
    ELSE IF f \notin DOMAIN fundraiser THEN Reject("FundraiserDetail.delete", 404)
    ELSE IF ~IsOwnerOrReadOnly(u, f) THEN Reject("FundraiserDetail.delete", 403)
    ELSE IF \E p \in DOMAIN pledge : pledge[p].fundraiser = f
        THEN Reject("FundraiserDetail.delete", 400)
    ELSE /\ fundraiser' = Remove(fundraiser, f)
         /\ Cascade({n \in DOMAIN need : need[n].fundraiser = f},
                    {t \in DOMAIN rewardTier : rewardTier[t].fundraiser = f})
         /\ UNCHANGED template
         /\ Answer("FundraiserDetail.delete", 204)

\* NeedList.post.  is_valid: the fundraiser exists and need_type is one of
\* Need.TYPE_CHOICES; then the owner check on the fundraiser.
NeedList_post(u, fr, type) ==
    IF u = Anonymous THEN Reject("NeedList.post", 401)
    ELSE IF fr \notin DOMAIN fundraiser \/ type \notin TYPE_CHOICES \/ DOMAIN need = NeedIds
        THEN Reject("NeedList.post", 400)
    ELSE IF ~IsOwnerOrReadOnly(u, fr) THEN Reject("NeedList.post", 403)
    ELSE /\ need' = Put(need, NewId(NeedIds, need), [fundraiser |-> fr, need_type |-> type])
         /\ UNCHANGED <<fundraiser, rewardTier, moneyNeed, timeNeed, itemNeed, template,
                        pledge, moneyPledge, timePledge, itemPledge>>
         /\ Answer("NeedList.post", 201)

\* NeedDetail.put: a partial update through NeedDetailSerializer, in which
\* fundraiser and need_type are writable ("__all__"); the owner check is the
\* one of get_object, on the need as stored.  An absent field is the stored
\* value.
NeedDetail_put(u, n, fr, type) ==
    IF u = Anonymous THEN Reject("NeedDetail.put", 401)
    ELSE IF n \notin DOMAIN need THEN Reject("NeedDetail.put", 404)
    ELSE IF ~IsOwnerOrReadOnly(u, need[n].fundraiser) THEN Reject("NeedDetail.put", 403)
    ELSE IF fr \notin DOMAIN fundraiser \/ type \notin TYPE_CHOICES
        THEN Reject("NeedDetail.put", 400)
    ELSE /\ need' = [need EXCEPT ![n] = [fundraiser |-> fr, need_type |-> type]]
         /\ UNCHANGED <<fundraiser, rewardTier, moneyNeed, timeNeed, itemNeed, template,
                        pledge, moneyPledge, timePledge, itemPledge>>
         /\ Answer("NeedDetail.put", 200)

\* NeedDetail.delete: refused while need.pledges exists; else the row goes
\* with its details
NeedDetail_delete(u, n) ==
    IF u = Anonymous THEN Reject("NeedDetail.delete", 401)
    ELSE IF n \notin DOMAIN need THEN Reject("NeedDetail.delete", 404)
    ELSE IF ~IsOwnerOrReadOnly(u, need[n].fundraiser) THEN Reject("NeedDetail.delete", 403)
    ELSE IF \E p \in DOMAIN pledge : pledge[p].need = n
        THEN Reject("NeedDetail.delete", 400)
    ELSE /\ Cascade({n}, {})
         /\ UNCHANGED <<fundraiser, template>>
         /\ Answer("NeedDetail.delete", 204)

\* MoneyNeedList.post.  is_valid: the need exists and has no MoneyNeed yet
\* (OneToOneField) and target_amount > 0; then the owner check on
\* need.fundraiser.  The rows are kept by the id of their need.
MoneyNeedList_post(u, n, target_amount) ==
    IF u = Anonymous THEN Reject("MoneyNeedList.post", 401)
    ELSE IF n \notin DOMAIN need \/ n \in DOMAIN moneyNeed \/ target_amount <= 0
        THEN Reject("MoneyNeedList.post", 400)
    ELSE IF ~IsOwnerOrReadOnly(u, need[n].fundraiser) THEN Reject("MoneyNeedList.post", 403)
    ELSE /\ moneyNeed' = Put(moneyNeed, n, [target_amount |-> target_amount])
         /\ UNCHANGED <<fundraiser, rewardTier, need, timeNeed, itemNeed, template,
                        pledge, moneyPledge, timePledge, itemPledge>>
         /\ Answer("MoneyNeedList.post", 201)

\* MoneyNeedDetail.put on the MoneyNeed of need n: a partial update that may
\* name another need; the owner check of get_object on the need as stored,
\* and after is_valid on the need of the request.  An absent field is the
\* stored value.
MoneyNeedDetail_put(u, n, new_need, target_amount) ==
    IF u = Anonymous THEN Reject("MoneyNeedDetail.put", 401)
    ELSE IF n \notin DOMAIN moneyNeed THEN Reject("MoneyNeedDetail.put", 404)
    ELSE IF ~IsOwnerOrReadOnly(u, need[n].fundraiser) THEN Reject("MoneyNeedDetail.put", 403)
    ELSE IF \/ new_need \notin DOMAIN need
            \/ new_need # n /\ new_need \in DOMAIN moneyNeed
            \/ target_amount <= 0
        THEN Reject("MoneyNeedDetail.put", 400)
    ELSE IF ~IsOwnerOrReadOnly(u, need[new_need].fundraiser)
        THEN Reject("MoneyNeedDetail.put", 403)
    ELSE /\ moneyNeed' = Put(Remove(moneyNeed, n), new_need,
                             [target_amount |-> target_amount])
         /\ UNCHANGED <<fundraiser, rewardTier, need, timeNeed, itemNeed, template,
                        pledge, moneyPledge, timePledge, itemPledge>>
         /\ Answer("MoneyNeedDetail.put", 200)

\* a RewardTier row
Tier(fr, type, min) ==
    [fundraiser |-> fr, reward_type |-> type, minimum_contribution_value |-> min]

\* RewardTier.clean, called by save: the minimum the row is saved with
RewardTier_clean_keeps_minimum(type, min) == min

RewardTier_clean(type, min) == IF type # "money" THEN NULL ELSE min

\* RewardTier.clean raises django's ValidationError; save does not reach the
\* store and the view answers 500
RewardTier_clean_raises(type, min) == type = "money" /\ min # NULL /\ min < 0

\* RewardTierList.post.  is_valid: the fundraiser exists and reward_type is one
\* of REWARD_TYPE_CHOICES (the serializer does not look at the minimum); then
\* the owner check on the fundraiser, then save.
RewardTierList_post(u, fr, type, min) ==
    IF u = Anonymous THEN Reject("RewardTierList.post", 401)
    ELSE IF fr \notin DOMAIN fundraiser \/ type \notin REWARD_TYPE_CHOICES
            \/ DOMAIN rewardTier = TierIds
        THEN Reject("RewardTierList.post", 400)
    ELSE IF ~IsOwnerOrReadOnly(u, fr) THEN Reject("RewardTierList.post", 403)
    ELSE IF RewardTier_clean_raises(type, min) THEN Reject("RewardTierList.post", 500)
    ELSE /\ rewardTier' = Put(rewardTier, NewId(TierIds, rewardTier),
                              Tier(fr, type, RewardTier_clean(type, min)))
         /\ UNCHANGED <<fundraiser, need, moneyNeed, timeNeed, itemNeed, template,
                        pledge, moneyPledge, timePledge, itemPledge>>
         /\ Answer("RewardTierList.post", 201)

\* RewardTierDetail.put: a partial update; the owner check of get_object on
\* the tier as stored, and after is_valid on the fundraiser of the request.
\* An absent field is the stored value.
RewardTierDetail_put(u, t, fr, type, min) ==
    IF u = Anonymous THEN Reject("RewardTierDetail.put", 401)
    ELSE IF t \notin DOMAIN rewardTier THEN Reject("RewardTierDetail.put", 404)
    ELSE IF ~IsOwnerOrReadOnly(u, rewardTier[t].fundraiser)
        THEN Reject("RewardTierDetail.put", 403)
    ELSE IF fr \notin DOMAIN fundraiser \/ type \notin REWARD_TYPE_CHOICES
        THEN Reject("RewardTierDetail.put", 400)
    ELSE IF ~IsOwnerOrReadOnly(u, fr) THEN Reject("RewardTierDetail.put", 403)
    ELSE IF RewardTier_clean_raises(type, min) THEN Reject("RewardTierDetail.put", 500)
    ELSE /\ rewardTier' = [rewardTier EXCEPT
                              ![t] = Tier(fr, type, RewardTier_clean(type, min))]
         /\ UNCHANGED <<fundraiser, need, moneyNeed, timeNeed, itemNeed, template,
                        pledge, moneyPledge, timePledge, itemPledge>>
         /\ Answer("RewardTierDetail.put", 200)

\* RewardTierDetail.delete: the references to the tier are set to null
RewardTierDetail_delete(u, t) ==
    IF u = Anonymous THEN Reject("RewardTierDetail.delete", 401)
    ELSE IF t \notin DOMAIN rewardTier THEN Reject("RewardTierDetail.delete", 404)
    ELSE IF ~IsOwnerOrReadOnly(u, rewardTier[t].fundraiser)
        THEN Reject("RewardTierDetail.delete", 403)
    ELSE /\ Cascade({}, {t})
         /\ UNCHANGED <<fundraiser, template>>
         /\ Answer("RewardTierDetail.delete", 204)

---------------------------------------------------------------------------
(* views.py: ApplyTemplateToFundraiser *)

\* the members of a set of ids in the order the store returns the rows
RECURSIVE Ascending(_)
Ascending(S) ==
    IF S = {} THEN <<>>
    ELSE LET m == CHOOSE x \in S : \A y \in S : x <= y
         IN <<m>> \o Ascending(S \ {m})

Position(seq, x) == CHOOSE i \in 1..Len(seq) : seq[i] = x

\* template_to_real_reward: the RewardTier created for each
\* TemplateRewardTier of the template
template_to_real_reward(tpl) ==
    LET trts == Ascending(DOMAIN tpl.template_reward_tiers)
        new == Ascending(TierIds \ DOMAIN rewardTier)
    IN [trt \in DOMAIN tpl.template_reward_tiers |-> new[Position(trts, trt)]]

\* a reward looked up by the template tier's own id
real_reward_by_template_id(created, ref) == ref

\* template_to_real_reward.get(...) under "if tneed.<x>_reward_template"
real_reward(created, ref) ==
    IF ref # NULL /\ ref \in DOMAIN created THEN created[ref] ELSE NULL

\* the "missing required fields" guards of the three kinds of template need:
\* target_amount for money, start_datetime for time, mode for item stand for
\* the fields each guard lists
missing(tneed) ==
    CASE tneed.need_type = "money" -> tneed.target_amount = NULL
      [] tneed.need_type = "time" -> tneed.start_datetime = NULL
      [] tneed.need_type = "item" -> tneed.mode = ""

\* step 4: the top-level fields, copied when the template has them
CopyTopLevel(f, tpl) ==
    fundraiser' = [fundraiser EXCEPT ![f].title = IF tpl.title # "" THEN tpl.title ELSE @]

\* step 5: a RewardTier for each TemplateRewardTier
CopyRewardTiers(f, tpl) ==
    LET created == template_to_real_reward(tpl)
        trtOf(t) == CHOOSE trt \in DOMAIN created : created[trt] = t
        new == {created[trt] : trt \in DOMAIN created}
    IN rewardTier' =
         [t \in DOMAIN rewardTier \cup new |->
            IF t \in DOMAIN rewardTier THEN rewardTier[t]
            ELSE LET trt == tpl.template_reward_tiers[trtOf(t)]
                 IN Tier(f, trt.reward_type,
                         RewardTier_clean(trt.reward_type, trt.minimum_contribution_value))]

\* step 6: a Need and its MoneyNeed / TimeNeed / ItemNeed for each TemplateNeed
CopyNeeds(f, tpl) ==
    LET created == template_to_real_reward(tpl)
        ids == Ascending(NeedIds \ DOMAIN need)
        new == {ids[i] : i \in 1..Len(tpl.template_needs)}
        tneedOf(n) == tpl.template_needs[Position(ids, n)]
        ofType(type) == {n \in new : tneedOf(n).need_type = type}
    IN /\ need' = [n \in DOMAIN need \cup new |->
                      IF n \in DOMAIN need THEN need[n]
                      ELSE [fundraiser |-> f, need_type |-> tneedOf(n).need_type]]
       /\ moneyNeed' = [n \in DOMAIN moneyNeed \cup ofType("money") |->
                      IF n \in DOMAIN moneyNeed THEN moneyNeed[n]
                      ELSE [target_amount |-> tneedOf(n).target_amount]]
       /\ timeNeed' = [n \in DOMAIN timeNeed \cup ofType("time") |->
                      IF n \in DOMAIN timeNeed THEN timeNeed[n]
                      ELSE [reward_tier |->
                              real_reward(created, tneedOf(n).time_reward_template)]]
       /\ itemNeed' = [n \in DOMAIN itemNeed \cup ofType("item") |->
                      IF n \in DOMAIN itemNeed THEN itemNeed[n]
                      ELSE [mode |-> tneedOf(n).mode,
                            donation_reward_tier |->
                              real_reward(created, tneedOf(n).donation_reward_template),
                            loan_reward_tier |->
                              real_reward(created, tneedOf(n).loan_reward_template)]]

\* the store has ids left for the rows of the template
Room(tpl) ==
    /\ Cardinality(DOMAIN tpl.template_reward_tiers)
          <= Cardinality(TierIds \ DOMAIN rewardTier)
    /\ Len(tpl.template_needs) <= Cardinality(NeedIds \ DOMAIN need)

\* the view without transaction.atomic: the rows written before the guard of a
\* template need raises stay
ApplyTemplateToFundraiser_post_without_atomic(u, f, t) ==
    LET op == "ApplyTemplateToFundraiser.post"
    IN IF u = Anonymous THEN Reject(op, 401)
       ELSE IF f = NULL \/ t = NULL THEN Reject(op, 400)
       ELSE IF f \notin DOMAIN fundraiser \/ fundraiser[f].owner # u THEN Reject(op, 404)
       ELSE IF \/ \E n \in DOMAIN need : need[n].fundraiser = f
               \/ \E r \in DOMAIN rewardTier : rewardTier[r].fundraiser = f
           THEN Reject(op, 400)
       ELSE IF t \notin DOMAIN template \/ ~template[t].is_active THEN Reject(op, 404)
       ELSE LET tpl == template[t]
            IN /\ Room(tpl)
               /\ IF \E trt \in DOMAIN tpl.template_reward_tiers :
                        RewardTier_clean_raises(
                            tpl.template_reward_tiers[trt].reward_type,
                            tpl.template_reward_tiers[trt].minimum_contribution_value)
                  THEN Reject(op, 500)
                  ELSE IF \E i \in 1..Len(tpl.template_needs) : missing(tpl.template_needs[i])
                  THEN /\ CopyTopLevel(f, tpl)
                       /\ CopyRewardTiers(f, tpl)
                       /\ UNCHANGED <<need, moneyNeed, timeNeed, itemNeed, template,
                                      pledge, moneyPledge, timePledge, itemPledge>>
                       /\ Answer(op, 400)
                  ELSE /\ CopyTopLevel(f, tpl)
                       /\ CopyRewardTiers(f, tpl)
                       /\ CopyNeeds(f, tpl)
                       /\ UNCHANGED <<template, pledge, moneyPledge, timePledge, itemPledge>>
                       /\ Answer(op, 200)

\* ApplyTemplateToFundraiser.post.  The body needs both ids; the fundraiser is
\* looked up among those the user owns; it must have no Need and no
\* RewardTier; the template must be active.  The writes run under
\* transaction.atomic: an exception of RewardTier.save (500) or of a
\* missing-field guard (400) rolls all of them back.
ApplyTemplateToFundraiser_post(u, f, t) ==
    LET op == "ApplyTemplateToFundraiser.post"
    IN IF u = Anonymous THEN Reject(op, 401)
       ELSE IF f = NULL \/ t = NULL THEN Reject(op, 400)
       ELSE IF f \notin DOMAIN fundraiser \/ fundraiser[f].owner # u THEN Reject(op, 404)
       ELSE IF \/ \E n \in DOMAIN need : need[n].fundraiser = f
               \/ \E r \in DOMAIN rewardTier : rewardTier[r].fundraiser = f
           THEN Reject(op, 400)
       ELSE IF t \notin DOMAIN template \/ ~template[t].is_active THEN Reject(op, 404)
       ELSE LET tpl == template[t]
            IN /\ Room(tpl)
               /\ IF \E trt \in DOMAIN tpl.template_reward_tiers :
                        RewardTier_clean_raises(
                            tpl.template_reward_tiers[trt].reward_type,
                            tpl.template_reward_tiers[trt].minimum_contribution_value)
                  THEN Reject(op, 500)
                  ELSE IF \E i \in 1..Len(tpl.template_needs) : missing(tpl.template_needs[i])
                  THEN Reject(op, 400)
                  ELSE /\ CopyTopLevel(f, tpl)
                       /\ CopyRewardTiers(f, tpl)
                       /\ CopyNeeds(f, tpl)
                       /\ UNCHANGED <<template, pledge, moneyPledge, timePledge, itemPledge>>
                       /\ Answer(op, 200)

---------------------------------------------------------------------------
(* Stores the scenarios start from *)

\* two fundraisers, each owned by one of the users
TwoFundraisers == (1 :> [owner |-> "u1", title |-> "F1"])
                  @@ (2 :> [owner |-> "u2", title |-> "F2"])

NoRows == <<>>

TierRefs == DOMAIN rewardTier \cup {NULL}
NeedRefs == DOMAIN need \cup {NULL}

---------------------------------------------------------------------------
(* Spec: the life of Pledge rows.  Any user, or nobody, sends any request   *)
(* on pledges of either fundraiser.                                        *)

Init ==
    /\ fundraiser = TwoFundraisers
    /\ rewardTier = (1 :> Tier(1, "money", 1))
    /\ need = NoRows
    /\ moneyNeed = NoRows
    /\ template = NoRows
    /\ timeNeed = NoRows
    /\ itemNeed = NoRows
    /\ pledge = NoRows
    /\ moneyPledge = NoRows
    /\ timePledge = NoRows
    /\ itemPledge = NoRows
    /\ last = Boot
    /\ call = NoCall
    /\ req = NoRequests

Next ==
    \E u \in Actors, p \in PledgeIds :
        \/ \E fr \in DOMAIN fundraiser \cup {NULL}, nd \in NeedRefs,
              st \in STATUS_CHOICES, tier \in TierRefs :
                PledgeList_post(u, fr, nd, st, tier)
        \/ \E st \in STATUS_CHOICES, tier \in TierRefs : PledgeDetail_put(u, p, st, tier)
        \/ PledgeDetail_delete(u, p)
        \/ PledgeCancel_post(u, p)
        \/ PledgeApprove_post(u, p)
        \/ PledgeDecline_post(u, p)

Spec == Init /\ [][Next]_vars

---------------------------------------------------------------------------
(* SpecMoney: money pledges.  Fundraiser 1 has money tiers at 1 and 3,      *)
(* fundraiser 2 has none.  Signed-in users create pledges by requests that *)
(* carry the fundraiser only, and give them money details, change, move    *)
(* and delete these.                                                       *)

InitMoney ==
    /\ fundraiser = TwoFundraisers
    /\ rewardTier = (1 :> Tier(1, "money", 1)) @@ (2 :> Tier(1, "money", 3))
    /\ need = NoRows
    /\ moneyNeed = NoRows
    /\ template = NoRows
    /\ timeNeed = NoRows
    /\ itemNeed = NoRows
    /\ pledge = NoRows
    /\ moneyPledge = NoRows
    /\ timePledge = NoRows
    /\ itemPledge = NoRows
    /\ last = Boot
    /\ call = NoCall
    /\ req = NoRequests

NextMoney ==
    \/ \E u \in Users, fr \in DOMAIN fundraiser : PledgeList_post(u, fr, NULL, "pending", NULL)
    \/ \E u \in Users, p \in PledgeIds :
        \/ \E amount \in Amounts : MoneyPledgeList_post(u, p, amount)
        \/ \E q \in PledgeIds, amount \in Amounts : MoneyPledgeDetail_put(u, p, q, amount)
        \/ MoneyPledgeDetail_delete(u, p)

SpecMoney == InitMoney /\ [][NextMoney]_vars

---------------------------------------------------------------------------
(* Claims on the life of Pledge rows (Spec) *)

TransitionTable ==
    {<<"pending", "approved">>, <<"pending", "declined">>,
     <<"pending", "cancelled">>, <<"approved", "cancelled">>}

\* a request by u on pledge p that may write its status
RequestBy(u, p) ==
    \/ \E st \in STATUS_CHOICES, tier \in TierRefs : PledgeDetail_put(u, p, st, tier)
    \/ PledgeCancel_post(u, p)
    \/ PledgeApprove_post(u, p)
    \/ PledgeDecline_post(u, p)

\* C1: once a pledge exists, every change of its status is a step of the
\* transition table (pending->approved, pending->declined, pending->cancelled,
\* approved->cancelled), whoever acts and through whichever request; and no
\* request of an actor who does not own the pledge's fundraiser makes the
\* pledge approved or declined.
C1_StatusChangesByTableOnly ==
    [][ /\ \A p \in DOMAIN pledge \cap DOMAIN pledge' :
              pledge'[p].status # pledge[p].status
                  => <<pledge[p].status, pledge'[p].status>> \in TransitionTable
        /\ \A u \in Actors, p \in DOMAIN pledge :
              (RequestBy(u, p) /\ fundraiser[pledge[p].fundraiser].owner # u
                    /\ pledge'[p].status # pledge[p].status)
                  => pledge'[p].status \notin {"approved", "declined"}
      ]_vars

\* C2: approve and decline succeed exactly when the actor owns the pledge's
\* fundraiser and the pledge is pending; in every other case the request
\* fails and the Pledge table is unchanged.
C2_ApproveDeclineOnlyOwnerOnPending ==
    [][ \A u \in Actors, p \in PledgeIds :
            (PledgeApprove_post(u, p) \/ PledgeDecline_post(u, p))
                => IF /\ p \in DOMAIN pledge
                      /\ fundraiser[pledge[p].fundraiser].owner = u
                      /\ pledge[p].status = "pending"
                   THEN last'.code = 200
                   ELSE last'.code # 200 /\ pledge' = pledge
      ]_vars

\* the role section 4.1 derives for actor u on pledge row pl
ActorRole(u, pl) ==
    IF fundraiser[pl.fundraiser].owner = u THEN "owner"
    ELSE IF pl.supporter = u THEN "supporter"
    ELSE "none"

\* C3: cancel takes the role owner when the actor owns the fundraiser (also
\* when the actor is the supporter too), else supporter when the actor is the
\* supporter, and rejects any other actor (403); it succeeds, leaving the
\* pledge cancelled, exactly for a supporter on a pending pledge and an owner
\* on a pending or approved pledge; every failure leaves the Pledge table
\* unchanged.
C3_CancelByDerivedRole ==
    [][ \A u \in Actors, p \in DOMAIN pledge :
            PledgeCancel_post(u, p)
                => LET role == ActorRole(u, pledge[p])
                   IN IF role = "none"
                      THEN last'.code \in {401, 403} /\ pledge' = pledge
                      ELSE IF ensure_allowed_transition(
                                  pledge[p].status, "cancelled", role) = "ok"
                      THEN last'.code = 200 /\ pledge'[p].status = "cancelled"
                      ELSE last'.code = 400 /\ pledge' = pledge
      ]_vars

---------------------------------------------------------------------------
(* Claims on money pledges (SpecMoney) *)

\* the supporter's total on the fundraiser: the sum of the amounts of the
\* MoneyPledge rows of the supporter's pledges to it
SupporterTotal(s, fr) ==
    SumOver({p \in DOMAIN moneyPledge :
                pledge[p].supporter = s /\ pledge[p].fundraiser = fr}, moneyPledge)

\* tier t is what the allocation must give for `total` on fundraiser fr: a
\* money tier of fr with a minimum within the total that no other such tier
\* outranks; null when there is none
Qualifies(t, fr, total) ==
    /\ t \in DOMAIN rewardTier
    /\ rewardTier[t].fundraiser = fr
    /\ rewardTier[t].reward_type = "money"
    /\ rewardTier[t].minimum_contribution_value # NULL
    /\ rewardTier[t].minimum_contribution_value <= total

IsHighestQualifying(t, fr, total) ==
    IF t = NULL THEN \A o \in DOMAIN rewardTier : ~Qualifies(o, fr, total)
    ELSE /\ Qualifies(t, fr, total)
         /\ \A o \in DOMAIN rewardTier :
                Qualifies(o, fr, total) /\ o # t
                    => \/ rewardTier[o].minimum_contribution_value
                              < rewardTier[t].minimum_contribution_value
                       \/ /\ rewardTier[o].minimum_contribution_value
                              = rewardTier[t].minimum_contribution_value
                          /\ o < t

\* C5: after a successful create or update of a MoneyPledge (now on pledge
\* q), every pledge of q's supporter and fundraiser that has a money detail
\* carries the tier selected for the supporter's current total (null if none
\* qualifies), and every other Pledge row is as it was.  The request that
\* succeeded is the one of q's supporter with the amount now stored for q.
C5_MoneyWriteSetsTierOnPair ==
    [][ ( /\ last'.op \in {"MoneyPledgeList.post", "MoneyPledgeDetail.put"}
          /\ last'.code \in {200, 201} )
        => \A q \in DOMAIN moneyPledge' \cap DOMAIN pledge :
            LET u == pledge[q].supporter
                amount == moneyPledge'[q].amount
            IN  ( \/ MoneyPledgeList_post(u, q, amount)
                  \/ \E p \in DOMAIN moneyPledge : MoneyPledgeDetail_put(u, p, q, amount) )
                => /\ DOMAIN pledge' = DOMAIN pledge
                   /\ \A r \in DOMAIN pledge :
                        IF /\ r \in DOMAIN moneyPledge'
                           /\ pledge[r].supporter = pledge[q].supporter
                           /\ pledge[r].fundraiser = pledge[q].fundraiser
                        THEN /\ IsHighestQualifying(pledge'[r].reward_tier,
                                    pledge[q].fundraiser,
                                    SupporterTotal(pledge[q].supporter, pledge[q].fundraiser)')
                             /\ pledge'[r] = [pledge[r] EXCEPT
                                                !.reward_tier = pledge'[r].reward_tier]
                        ELSE pledge'[r] = pledge[r]
      ]_vars

\* C5 witness: a create has just succeeded and two money pledges of one
\* supporter on fundraiser 1 both carry the tier at 3, which neither amount
\* reaches alone: the pledge that was there first had its tier overwritten
C5_Witness ==
    /\ last = [op |-> "MoneyPledgeList.post", code |-> 201]
    /\ \E p \in DOMAIN moneyPledge, q \in DOMAIN moneyPledge, r \in DOMAIN pledge :
          /\ p # q
          /\ pledge[p].supporter = pledge[q].supporter
          /\ pledge[p].fundraiser = 1 /\ pledge[q].fundraiser = 1
          /\ pledge[p].reward_tier = 2 /\ pledge[q].reward_tier = 2

---------------------------------------------------------------------------
(* SpecTransition: ensure_allowed_transition called directly on every       *)
(* current status, on every status and an unknown word as target, and on    *)
(* both roles and an unknown one.                                          *)

Targets == STATUS_CHOICES \cup {"refunded"}
Roles == {"supporter", "owner", "admin"}

EmptyStore ==
    /\ fundraiser = NoRows
    /\ rewardTier = NoRows
    /\ need = NoRows
    /\ moneyNeed = NoRows
    /\ template = NoRows
    /\ timeNeed = NoRows
    /\ itemNeed = NoRows
    /\ pledge = NoRows
    /\ moneyPledge = NoRows
    /\ timePledge = NoRows
    /\ itemPledge = NoRows

InitTransition ==
    /\ EmptyStore
    /\ last = Boot
    /\ req = NoRequests
    /\ call \in [fn : {"ensure_allowed_transition"}, current : STATUS_CHOICES,
                 target : Targets, actor_role : Roles, outcome : {"not called"}]

TransitionCall ==
    /\ call.outcome = "not called"
    /\ call' = [call EXCEPT !.outcome =
                    ensure_allowed_transition(call.current, call.target, call.actor_role)]
    /\ UNCHANGED <<store, last, req>>

SpecTransition == InitTransition /\ [][TransitionCall]_vars

AllowedTriples ==
    {<<"supporter", "pending", "cancelled">>,
     <<"owner", "pending", "approved">>,
     <<"owner", "pending", "declined">>,
     <<"owner", "pending", "cancelled">>,
     <<"owner", "approved", "cancelled">>}

\* C4: ensure_allowed_transition returns without error exactly for the five
\* triples of the table and raises for every other combination of current
\* status, target (also an unknown one) and actor role (also an unknown one);
\* the call changes no row.
C4_TransitionAllowedExactlyForTable ==
    call.outcome # "not called"
        => /\ call.outcome = "ok"
                <=> <<call.actor_role, call.current, call.target>> \in AllowedTriples
           /\ pledge = NoRows

\* C4 witness: the owner's cancel of a declined pledge was called and raised
C4_Witness ==
    /\ call.actor_role = "owner" /\ call.current = "declined" /\ call.target = "cancelled"
    /\ call.outcome = "Only pending or approved pledges can be cancelled."

---------------------------------------------------------------------------
(* SpecSelect: the tier query of the recomputation (utils.py 31-40) called   *)
(* directly on every table of up to MaxTiers tiers.  A tier that is not a   *)
(* money tier has no minimum: RewardTier.save clears it.                    *)

TierRows ==
    {Tier(fr, "money", min) : fr \in DOMAIN TwoFundraisers,
                              min \in (0..MaxMinimum) \cup {NULL}}
        \cup {Tier(fr, "time", NULL) : fr \in DOMAIN TwoFundraisers}

InitSelect ==
    /\ fundraiser = TwoFundraisers
    /\ rewardTier \in [1..MaxTiers -> TierRows]
    /\ need = NoRows
    /\ moneyNeed = NoRows
    /\ template = NoRows
    /\ timeNeed = NoRows
    /\ itemNeed = NoRows
    /\ pledge = NoRows
    /\ moneyPledge = NoRows
    /\ timePledge = NoRows
    /\ itemPledge = NoRows
    /\ last = Boot
    /\ req = NoRequests
    /\ call \in [fn : {"select_reward_tier"}, fundraiser : DOMAIN TwoFundraisers,
                 total : 0..MaxTotal, called : {FALSE}, reward_tier : {NULL}]

SelectCall ==
    /\ ~call.called
    /\ call' = [call EXCEPT !.called = TRUE,
                    !.reward_tier = select_reward_tier(rewardTier, call.fundraiser, call.total)]
    /\ UNCHANGED <<store, last, req>>

SpecSelect == InitSelect /\ [][SelectCall]_vars

\* C6: the selection returns, among the fundraiser's money tiers with a
\* minimum that is set and within the total, the one with the greatest
\* minimum, the higher id winning between equal minimums, and null when no
\* tier qualifies; never a tier of another fundraiser, a tier that is not a
\* money tier, or a tier whose minimum exceeds the total.
C6_SelectsHighestQualifyingTier ==
    call.called
        => /\ IsHighestQualifying(call.reward_tier, call.fundraiser, call.total)
           /\ call.reward_tier # NULL
                => /\ rewardTier[call.reward_tier].fundraiser = call.fundraiser
                   /\ rewardTier[call.reward_tier].reward_type = "money"
                   /\ rewardTier[call.reward_tier].minimum_contribution_value <= call.total

\* C6 witness: two tiers of the fundraiser tie at the greatest qualifying
\* minimum and the higher id is returned, while a tier of the other
\* fundraiser with a greater minimum within the total is passed over
C6_Witness ==
    /\ call.called /\ call.fundraiser = 1 /\ call.total = 2
    /\ rewardTier[1] = Tier(1, "money", 1)
    /\ rewardTier[2] = Tier(1, "money", 1)
    /\ rewardTier[3] = Tier(2, "money", 2)
    /\ call.reward_tier = 2

---------------------------------------------------------------------------
(* SpecRecompute: update_reward_tiers_for_supporter_and_fundraiser called    *)
(* directly, again and again, on every store of MaxPledges pledges with any *)
(* stored tier and any money details.                                      *)

RecomputeFn == "update_reward_tiers_for_supporter_and_fundraiser"

InitRecompute ==
    /\ fundraiser = TwoFundraisers
    /\ rewardTier = (1 :> Tier(1, "money", 1)) @@ (2 :> Tier(1, "money", 3))
    /\ need = NoRows
    /\ moneyNeed = NoRows
    /\ template = NoRows
    /\ timeNeed = NoRows
    /\ itemNeed = NoRows
    /\ pledge \in [PledgeIds -> [supporter : Users, fundraiser : DOMAIN TwoFundraisers,
                                 need : {NULL}, status : {"pending"},
                                 reward_tier : {NULL, 1, 2}]]
    /\ moneyPledge \in UNION {[D -> [amount : 1..MaxAmount]] : D \in SUBSET PledgeIds}
    /\ timePledge = NoRows
    /\ itemPledge = NoRows
    /\ last = Boot
    /\ req = NoRequests
    /\ call = NoCall

\* one call; `again` tells that the call before it had the same arguments
RecomputeCall(s, fr) ==
    /\ pledge' = update_reward_tiers_for_supporter_and_fundraiser(
                     pledge, moneyPledge, rewardTier, s, fr)
    /\ call' = [fn |-> RecomputeFn, supporter |-> s, fundraiser |-> fr,
                reward_tier |-> select_reward_tier(rewardTier, fr,
                                    total_money(pledge, moneyPledge, s, fr)),
                again |-> call.fn = RecomputeFn /\ call.supporter = s
                              /\ call.fundraiser = fr]
    /\ UNCHANGED <<fundraiser, rewardTier, need, moneyNeed, timeNeed, itemNeed, template,
                   moneyPledge, timePledge, itemPledge, last, req>>

NextRecompute == \E s \in Users, fr \in DOMAIN fundraiser : RecomputeCall(s, fr)

SpecRecompute == InitRecompute /\ [][NextRecompute]_vars

\* C8: a recomputation that directly follows one for the same supporter and
\* fundraiser selects the same tier and leaves every row as the first left it.
C8_RecomputeIdempotent ==
    [][ \A s \in Users, fr \in DOMAIN fundraiser :
            ( /\ RecomputeCall(s, fr)
              /\ call.fn = RecomputeFn /\ call.supporter = s /\ call.fundraiser = fr )
                => /\ store' = store
                   /\ call'.reward_tier = call.reward_tier
      ]_vars

\* C8 witness: the second of two calls in a row has returned, both pledges
\* of the pair carrying the tier at 3 that the calls selected
C8_Witness ==
    /\ call.fn = RecomputeFn /\ call.again
    /\ call.reward_tier = 2
    /\ \A p \in PledgeIds :
          /\ pledge[p].supporter = call.supporter
          /\ pledge[p].fundraiser = call.fundraiser
          /\ p \in DOMAIN moneyPledge
          /\ pledge[p].reward_tier = 2

---------------------------------------------------------------------------
(* SpecRace: MoneyPledgeList.post requests that overlap.  User u1 has       *)
(* MaxPledges pending pledges to fundraiser 1, whose money tiers start at  *)
(* 1 and 3.  Requests arrive at any time and their queries interleave.     *)

InitRace ==
    /\ fundraiser = TwoFundraisers
    /\ rewardTier = (1 :> Tier(1, "money", 1)) @@ (2 :> Tier(1, "money", 3))
    /\ need = NoRows
    /\ moneyNeed = NoRows
    /\ template = NoRows
    /\ timeNeed = NoRows
    /\ itemNeed = NoRows
    /\ pledge = [p \in PledgeIds |->
                    [supporter |-> "u1", fundraiser |-> 1, need |-> NULL,
                     status |-> "pending", reward_tier |-> NULL]]
    /\ moneyPledge = NoRows
    /\ timePledge = NoRows
    /\ itemPledge = NoRows
    /\ last = Boot
    /\ call = NoCall
    /\ req = NoRequests

NextRace ==
    \/ \E u \in Actors, p \in PledgeIds, amount \in Amounts :
            MoneyPledgeList_post_is_valid(u, p, amount)
    \/ \E r \in RequestIds :
        \/ MoneyPledgeSerializer_create(r)
        \/ update_reward_tiers_total_money(r)
        \/ update_reward_tiers_reward_tier(r)
        \/ update_reward_tiers_update(r)

SpecRace == InitRace /\ [][NextRace]_vars

\* C7: once the money-pledge writes of a supporter on a fundraiser that ran
\* at the same time have all completed, the supporter's money pledges carry
\* the tier selected for the sum of all the amounts written, never the tier
\* of a total that misses one of them.
C7_ConcurrentWritesEndWithTierOfSum ==
    (DOMAIN req # {} /\ InFlight = {})
        => \A p \in DOMAIN moneyPledge :
              IsHighestQualifying(pledge[p].reward_tier, pledge[p].fundraiser,
                                  SupporterTotal(pledge[p].supporter, pledge[p].fundraiser))

---------------------------------------------------------------------------
(* SpecTime: time pledges.  Fundraiser 1 has a time tier (1) and a money    *)
(* tier (2); its time need 1 rewards tier 1, its time need 2 rewards       *)
(* nothing.  User u2 creates pledges with any need and any reward_tier in  *)
(* the request; the users give them time details, change and move these.   *)

\* two instants give every order of start_datetime and end_datetime
Instants == {1, 2}

InitTime ==
    /\ fundraiser = TwoFundraisers
    /\ rewardTier = (1 :> Tier(1, "time", NULL)) @@ (2 :> Tier(1, "money", 1))
    /\ need = (1 :> [fundraiser |-> 1, need_type |-> "time"])
              @@ (2 :> [fundraiser |-> 1, need_type |-> "time"])
    /\ moneyNeed = NoRows
    /\ template = NoRows
    /\ timeNeed = (1 :> [reward_tier |-> 1]) @@ (2 :> [reward_tier |-> NULL])
    /\ itemNeed = NoRows
    /\ pledge = NoRows
    /\ moneyPledge = NoRows
    /\ timePledge = NoRows
    /\ itemPledge = NoRows
    /\ last = Boot
    /\ call = NoCall
    /\ req = NoRequests

NextTime ==
    \/ \E nd \in NeedRefs, tier \in TierRefs : PledgeList_post("u2", 1, nd, "pending", tier)
    \/ \E u \in Users, p \in PledgeIds, start \in Instants, end \in Instants :
        \/ TimePledgeList_post(u, p, start, end)
        \/ \E q \in PledgeIds : TimePledgeDetail_put(u, p, q, start, end)

SpecTime == InitTime /\ [][NextTime]_vars

\* the reward tier configured on the time need of pledge q, null when the
\* pledge has no need or the need no time detail
TimeNeedTier(q) ==
    IF pledge[q].need # NULL /\ pledge[q].need \in DOMAIN timeNeed
    THEN timeNeed[pledge[q].need].reward_tier
    ELSE NULL

TimeWrite(q) ==
    \E u \in Users, start \in Instants, end \in Instants :
        \/ TimePledgeList_post(u, q, start, end)
        \/ \E p \in PledgeIds : TimePledgeDetail_put(u, p, q, start, end)

---------------------------------------------------------------------------
(* SpecItem: item pledges.  Fundraiser 1 has the item tiers 1 and 2 and the *)
(* money tier 3.  Its item need 1 rewards a donation with tier 1 and a     *)
(* loan with tier 2; its item need 2 takes loans only and rewards them     *)
(* with tier 2.  User u2 creates pledges with any need and, in the         *)
(* request's reward_tier, nothing or the money tier; the users give them   *)
(* item details, change and move these.                                    *)

\* quantities a request may carry; 0 stands for the rejected "<= 0" inputs
Quantities == {0, 1}

InitItem ==
    /\ fundraiser = TwoFundraisers
    /\ rewardTier = (1 :> Tier(1, "item", NULL)) @@ (2 :> Tier(1, "item", NULL))
                    @@ (3 :> Tier(1, "money", 1))
    /\ need = (1 :> [fundraiser |-> 1, need_type |-> "item"])
              @@ (2 :> [fundraiser |-> 1, need_type |-> "item"])
    /\ moneyNeed = NoRows
    /\ template = NoRows
    /\ timeNeed = NoRows
    /\ itemNeed = (1 :> [mode |-> "either", donation_reward_tier |-> 1,
                         loan_reward_tier |-> 2])
                  @@ (2 :> [mode |-> "loan", donation_reward_tier |-> NULL,
                            loan_reward_tier |-> 2])
    /\ pledge = NoRows
    /\ moneyPledge = NoRows
    /\ timePledge = NoRows
    /\ itemPledge = NoRows
    /\ last = Boot
    /\ call = NoCall
    /\ req = NoRequests

NextItem ==
    \/ \E nd \in NeedRefs, tier \in {NULL, 3} : PledgeList_post("u2", 1, nd, "pending", tier)
    \/ \E u \in Users, p \in PledgeIds, quantity \in Quantities,
          mode \in ItemNeed_MODE_CHOICES :
        \/ ItemPledgeList_post(u, p, quantity, mode)
        \/ \E q \in PledgeIds : ItemPledgeDetail_put(u, p, q, quantity, mode)

SpecItem == InitItem /\ [][NextItem]_vars

\* pledge q is a pledge on an item need
OnItemNeed(q) ==
    /\ pledge[q].need # NULL
    /\ need[pledge[q].need].need_type = "item"
    /\ pledge[q].need \in DOMAIN itemNeed

\* the tier the item need of pledge q configures for a mode
ItemNeedTier(q, mode) ==
    IF mode = "donation" THEN itemNeed[pledge[q].need].donation_reward_tier
    ELSE itemNeed[pledge[q].need].loan_reward_tier

ItemWrite(q) ==
    \E u \in Users, quantity \in Quantities, mode \in ItemPledge_MODE_CHOICES :
        \/ ItemPledgeList_post(u, q, quantity, mode)
        \/ \E p \in PledgeIds : ItemPledgeDetail_put(u, p, q, quantity, mode)

\* C10: after a successful create or update of an ItemPledge (now on pledge
\* q) on an item need, the pledge's reward_tier is the need's tier for the
\* mode of the ItemPledge (donation_reward_tier for a donation,
\* loan_reward_tier for a loan) when that tier is not null, whatever was
\* stored, and is the stored reward_tier when it is null.
C10_ItemTierByMode ==
    [][ last'.op \in {"ItemPledgeList.post", "ItemPledgeDetail.put"}
            /\ last'.code \in {200, 201}
        => \A q \in DOMAIN pledge :
            (ItemWrite(q) /\ OnItemNeed(q))
                => LET tier == ItemNeedTier(q, itemPledge'[q].mode)
                   IN pledge'[q].reward_tier =
                         IF tier # NULL THEN tier ELSE pledge[q].reward_tier
      ]_vars

\* C10 witness: an update has just succeeded and left a loan on need 1, whose
\* pledge carries the loan tier 2, and a donation on need 2, which resolves
\* no tier, whose pledge still carries the money tier 3 it was created with
C10_Witness ==
    /\ last = [op |-> "ItemPledgeDetail.put", code |-> 200]
    /\ \E q \in DOMAIN itemPledge, r \in DOMAIN itemPledge :
          /\ pledge[q].need = 1 /\ itemPledge[q].mode = "loan"
          /\ pledge[q].reward_tier = 2
          /\ pledge[r].need = 2 /\ itemPledge[r].mode = "donation"
          /\ pledge[r].reward_tier = 3

---------------------------------------------------------------------------
(* Claims on what the supporter's own requests store on a pledge (Spec) *)

\* C11: no reward_tier carried by the creation of a pledge or by an update of
\* the pledge row decides the stored reward_tier: a new row has none and an
\* updated row keeps the one it had.
C11_RewardTierNotChosenBySupporter ==
    [][ last'.op \in {"PledgeList.post", "PledgeDetail.put"}
        => \A p \in DOMAIN pledge' :
              pledge'[p].reward_tier =
                  IF p \in DOMAIN pledge THEN pledge[p].reward_tier ELSE NULL
      ]_vars

\* views.py 186: getattr(fundraiser, "require_pledge_approval", True), read
\* of a Fundraiser that declares no such field
require_pledge_approval(fr) == TRUE

\* C12: the row a creation request leaves is pending when its fundraiser
\* requires approval and approved when it does not, whatever status the
\* request carried.
C12_CreatedStatusFollowsPolicy ==
    [][ last'.op = "PledgeList.post"
        => \A p \in DOMAIN pledge' \ DOMAIN pledge :
              pledge'[p].status =
                  IF require_pledge_approval(pledge'[p].fundraiser)
                  THEN "pending" ELSE "approved"
      ]_vars

---------------------------------------------------------------------------
(* SpecDelete: deleting pledges and their details.  User u2 pledges to      *)
(* fundraiser 1 (owned by u1, no tiers, no needs), gives a pledge that has *)
(* no detail yet a money, time or item detail, and sets its status by      *)
(* updates of the row; anybody sends the four delete requests.             *)

InitDelete ==
    /\ fundraiser = TwoFundraisers
    /\ rewardTier = NoRows
    /\ need = NoRows
    /\ moneyNeed = NoRows
    /\ template = NoRows
    /\ timeNeed = NoRows
    /\ itemNeed = NoRows
    /\ pledge = NoRows
    /\ moneyPledge = NoRows
    /\ timePledge = NoRows
    /\ itemPledge = NoRows
    /\ last = Boot
    /\ call = NoCall
    /\ req = NoRequests

HasDetail(p) == p \in DOMAIN moneyPledge \cup DOMAIN timePledge \cup DOMAIN itemPledge

NextDelete ==
    \/ PledgeList_post("u2", 1, NULL, "pending", NULL)
    \/ \E p \in PledgeIds, st \in STATUS_CHOICES : PledgeDetail_put("u2", p, st, NULL)
    \/ \E p \in PledgeIds :
        \/ ~HasDetail(p) /\ MoneyPledgeList_post("u2", p, 1)
        \/ ~HasDetail(p) /\ TimePledgeList_post("u2", p, 1, 2)
        \/ ~HasDetail(p) /\ ItemPledgeList_post("u2", p, 1, "donation")
    \/ \E u \in Actors, p \in PledgeIds :
        \/ PledgeDetail_delete(u, p)
        \/ MoneyPledgeDetail_delete(u, p)
        \/ TimePledgeDetail_delete(u, p)
        \/ ItemPledgeDetail_delete(u, p)

SpecDelete == InitDelete /\ [][NextDelete]_vars

DeleteOps == {"PledgeDetail.delete", "MoneyPledgeDetail.delete",
              "TimePledgeDetail.delete", "ItemPledgeDetail.delete"}

DeleteBy(u, p) ==
    \/ PledgeDetail_delete(u, p)
    \/ MoneyPledgeDetail_delete(u, p)
    \/ TimePledgeDetail_delete(u, p)
    \/ ItemPledgeDetail_delete(u, p)

\* C13: a delete of a pledge or of its money, time or item detail succeeds
\* only for the pledge's supporter on a pending pledge; in every other case,
\* so whenever the pledge is approved, declined or cancelled, it fails and
\* no row of the store changes.
C13_DeleteOnlyBySupporterWhilePending ==
    [][ last'.op \in DeleteOps
        => \A u \in Actors, p \in PledgeIds :
            DeleteBy(u, p)
                => IF /\ p \in DOMAIN pledge
                      /\ pledge[p].supporter = u
                      /\ pledge[p].status = "pending"
                   THEN TRUE
                   ELSE last'.code # 204 /\ store' = store
      ]_vars

\* C13 witness: the delete of the money detail of an approved pledge has just
\* been refused and the detail is still there
C13_Witness ==
    /\ last = [op |-> "MoneyPledgeDetail.delete", code |-> 400]
    /\ \E p \in DOMAIN moneyPledge : pledge[p].status = "approved"

---------------------------------------------------------------------------
(* SpecNeedDelete: deleting needs and fundraisers.  The owners create needs *)
(* under the two fundraisers; user u2 pledges to any fundraiser with any   *)
(* need or none, and deletes pledges; anybody asks to delete needs and     *)
(* fundraisers.                                                            *)

InitNeedDelete ==
    /\ fundraiser = TwoFundraisers
    /\ rewardTier = NoRows
    /\ need = NoRows
    /\ moneyNeed = NoRows
    /\ template = NoRows
    /\ timeNeed = NoRows
    /\ itemNeed = NoRows
    /\ pledge = NoRows
    /\ moneyPledge = NoRows
    /\ timePledge = NoRows
    /\ itemPledge = NoRows
    /\ last = Boot
    /\ call = NoCall
    /\ req = NoRequests

NextNeedDelete ==
    \/ \E u \in Users, fr \in DOMAIN fundraiser : NeedList_post(u, fr, "money")
    \/ \E fr \in DOMAIN fundraiser, nd \in NeedRefs :
            PledgeList_post("u2", fr, nd, "pending", NULL)
    \/ \E p \in PledgeIds : PledgeDetail_delete("u2", p)
    \/ \E u \in Actors, n \in NeedIds : NeedDetail_delete(u, n)
    \/ \E u \in Actors, f \in FundraiserIds : FundraiserDetail_delete(u, f)

SpecNeedDelete == InitNeedDelete /\ [][NextNeedDelete]_vars

\* C14: the owner's delete of a need fails and changes no row when a pledge
\* references the need, and succeeds, removing the need, when none does; the
\* owner's delete of a fundraiser fails and changes no row when a pledge
\* references the fundraiser.
C14_NoDeleteWhilePledged ==
    [][ last'.op \in {"NeedDetail.delete", "FundraiserDetail.delete"}
        => /\ \A n \in DOMAIN need :
                NeedDetail_delete(fundraiser[need[n].fundraiser].owner, n)
                    => IF \E p \in DOMAIN pledge : pledge[p].need = n
                       THEN last'.code # 204 /\ store' = store
                       ELSE last'.code = 204 /\ n \notin DOMAIN need'
           /\ \A u \in Actors, f \in DOMAIN fundraiser :
                (FundraiserDetail_delete(u, f)
                    /\ \E p \in DOMAIN pledge : pledge[p].fundraiser = f)
                    => last'.code # 204 /\ store' = store
      ]_vars

\* C14 witness: the owner's delete of fundraiser 1 has just been refused
\* because of a pledge to it, and a need without pledges is gone while a
\* need with a pledge is there
C14_Witness ==
    /\ last = [op |-> "FundraiserDetail.delete", code |-> 400]
    /\ 1 \in DOMAIN fundraiser
    /\ \E p \in DOMAIN pledge : pledge[p].fundraiser = 1 /\ pledge[p].need = 2
    /\ DOMAIN need = {2}

---------------------------------------------------------------------------
(* SpecTemplate: reward tiers and templates.  The template tables are those *)
(* the admin site has filled; owners create and delete reward tiers, and   *)
(* anybody applies templates.                                              *)

TemplateRewardTier(type, min) ==
    [reward_type |-> type, minimum_contribution_value |-> min]

TemplateNeed(type, target, start, mode, time_reward, donation_reward, loan_reward) ==
    [need_type |-> type, target_amount |-> target, start_datetime |-> start,
     mode |-> mode, time_reward_template |-> time_reward,
     donation_reward_template |-> donation_reward,
     loan_reward_template |-> loan_reward]

\* FundraiserTemplate rows with their TemplateRewardTier rows (by id) and
\* TemplateNeed rows: 1 and 2 are complete (2 has no title and a need that
\* refers to a tier of template 1), 3, 6 and 7 have a need with a required
\* field missing, 4 has a money tier with a negative minimum, 5 is inactive
Templates ==
    (1 :> [is_active |-> TRUE, title |-> "T1",
           template_reward_tiers |->
               (1 :> TemplateRewardTier("money", 1)) @@ (2 :> TemplateRewardTier("time", 2)),
           template_needs |->
               << TemplateNeed("money", 1, NULL, "", NULL, NULL, NULL),
                  TemplateNeed("time", NULL, 1, "", 2, NULL, NULL) >>])
    @@ (2 :> [is_active |-> TRUE, title |-> "",
           template_reward_tiers |-> (3 :> TemplateRewardTier("item", NULL)),
           template_needs |->
               << TemplateNeed("item", NULL, NULL, "donation", NULL, 3, 1) >>])
    @@ (3 :> [is_active |-> TRUE, title |-> "T3",
           template_reward_tiers |-> (4 :> TemplateRewardTier("money", 1)),
           template_needs |->
               << TemplateNeed("money", 1, NULL, "", NULL, NULL, NULL),
                  TemplateNeed("time", NULL, NULL, "", 4, NULL, NULL) >>])
    @@ (4 :> [is_active |-> TRUE, title |-> "T4",
           template_reward_tiers |-> (5 :> TemplateRewardTier("money", -2)),
           template_needs |-> << >>])
    @@ (5 :> [is_active |-> FALSE, title |-> "T5",
           template_reward_tiers |-> (6 :> TemplateRewardTier("money", 1)),
           template_needs |-> << >>])
    @@ (6 :> [is_active |-> TRUE, title |-> "T6",
           template_reward_tiers |-> << >>,
           template_needs |->
               << TemplateNeed("money", NULL, NULL, "", NULL, NULL, NULL) >>])
    @@ (7 :> [is_active |-> TRUE, title |-> "T7",
           template_reward_tiers |-> << >>,
           template_needs |->
               << TemplateNeed("item", NULL, NULL, "", NULL, NULL, NULL) >>])

InitTemplate ==
    /\ fundraiser = TwoFundraisers
    /\ rewardTier = NoRows
    /\ need = NoRows
    /\ moneyNeed = NoRows
    /\ template = Templates
    /\ timeNeed = NoRows
    /\ itemNeed = NoRows
    /\ pledge = NoRows
    /\ moneyPledge = NoRows
    /\ timePledge = NoRows
    /\ itemPledge = NoRows
    /\ last = Boot
    /\ call = NoCall
    /\ req = NoRequests

\* owners create and delete reward tiers; anybody applies
\* any template, or none, to any fundraiser, or none
NextTemplate ==
    \/ \E u \in Actors, f \in FundraiserIds \cup {NULL}, t \in DOMAIN template \cup {NULL, 0} :
            ApplyTemplateToFundraiser_post(u, f, t)
    \/ \E fr \in FundraiserIds : RewardTierList_post(fundraiser[fr].owner, fr, "money", 1)
    \/ \E t \in DOMAIN rewardTier :
            RewardTierDetail_delete(fundraiser[rewardTier[t].fundraiser].owner, t)

SpecTemplate == InitTemplate /\ [][NextTemplate]_vars

\* the request cannot succeed: it is not by the owner of an existing
\* fundraiser, or the fundraiser has a Need or a RewardTier, or the template
\* is missing or inactive, or a need of the template lacks a required field
ApplyMustFail(u, f, t) ==
    \/ u = Anonymous
    \/ f \notin DOMAIN fundraiser
    \/ fundraiser[f].owner # u
    \/ \E n \in DOMAIN need : need[n].fundraiser = f
    \/ \E r \in DOMAIN rewardTier : rewardTier[r].fundraiser = f
    \/ t \notin DOMAIN template
    \/ ~template[t].is_active
    \/ \E i \in 1..Len(template[t].template_needs) :
            LET tneed == template[t].template_needs[i]
            IN \/ tneed.need_type = "money" /\ tneed.target_amount = NULL
               \/ tneed.need_type = "time" /\ tneed.start_datetime = NULL
               \/ tneed.need_type = "item" /\ tneed.mode = ""

\* C15: applying a template is all-or-nothing: a request that is not by the
\* owner, or on a fundraiser that has needs or reward tiers, or with a
\* missing or inactive template, or with a template need that lacks a
\* required field, fails (no request that answers 200 is one of these) and a
\* request that fails leaves the fundraiser's fields, the reward tiers, the
\* needs and their details exactly as before.
C15_ApplyTemplateAllOrNothing ==
    [][ last'.op = "ApplyTemplateToFundraiser.post"
        => IF last'.code = 200
           THEN \A u \in Actors, f \in FundraiserIds \cup {NULL},
                   t \in DOMAIN template \cup {NULL, 0} :
                     ApplyMustFail(u, f, t) => ~ApplyTemplateToFundraiser_post(u, f, t)
           ELSE <<fundraiser, rewardTier, need, moneyNeed, timeNeed, itemNeed>>'
                    = <<fundraiser, rewardTier, need, moneyNeed, timeNeed, itemNeed>>
      ]_vars

\* C15 witness: an application has just been refused with 400 while neither
\* fundraiser has a need (so a template need lacked a field, or an id was
\* missing), and fundraiser 1 keeps its title and has no tier
C15_Witness ==
    /\ last = [op |-> "ApplyTemplateToFundraiser.post", code |-> 400]
    /\ need = NoRows
    /\ fundraiser[1].title = "F1"
    /\ \A r \in DOMAIN rewardTier : rewardTier[r].fundraiser = 2
    /\ rewardTier # NoRows

CountOf(S, P(_)) == Cardinality({x \in S : P(x)})

---------------------------------------------------------------------------
(* SpecTier: the minimum of a reward tier.  Owners create and update reward *)
(* tiers of any type with any minimum; users apply template 1, which       *)
(* has a time tier with a minimum, and template 4, which has a money tier  *)
(* with a negative one.                                                    *)

\* the fields a reward tier request carries: a reward_type outside the
\* choices, and a negative minimum, are among them
TierTypes == {"money", "time", "gift"}
TierMinimums == {NULL, 1, -2}

NextTier ==
    \/ \E fr \in FundraiserIds, type \in TierTypes, min \in TierMinimums :
            RewardTierList_post(fundraiser[fr].owner, fr, type, min)
    \/ \E t \in DOMAIN rewardTier, type \in TierTypes, min \in TierMinimums :
            LET fr == rewardTier[t].fundraiser
            IN RewardTierDetail_put(fundraiser[fr].owner, t, fr, type, min)
    \/ \E u \in Users, f \in FundraiserIds, t \in {1, 4} :
            ApplyTemplateToFundraiser_post(u, f, t)

SpecTier == InitTemplate /\ [][NextTier]_vars

\* every stored tier that is not a money tier has no minimum, and no money
\* tier has a negative one
MinimumsClean ==
    \A r \in DOMAIN rewardTier :
        /\ rewardTier[r].reward_type # "money"
              => rewardTier[r].minimum_contribution_value = NULL
        /\ rewardTier[r].reward_type = "money"
              => \/ rewardTier[r].minimum_contribution_value = NULL
                 \/ rewardTier[r].minimum_contribution_value >= 0

\* the step is the answer to a request that carries a money tier with a
\* negative minimum
NegativeMinimumRequest ==
    \E u \in Users, fr \in FundraiserIds, min \in {m \in TierMinimums : m # NULL /\ m < 0} :
        \/ RewardTierList_post(u, fr, "money", min)
        \/ \E r \in DOMAIN rewardTier : RewardTierDetail_put(u, r, fr, "money", min)

\* C18: after every create or update of a reward tier, the application of a
\* template included, every stored tier that is not a money tier has a null
\* minimum; a money tier with a negative minimum is rejected (no request
\* that carries one is answered 200 or 201, and a request that is answered
\* otherwise writes nothing) and not saved.
C18_NonMoneyTierHasNoMinimum ==
    /\ []MinimumsClean
    /\ [][ last'.op \in {"RewardTierList.post", "RewardTierDetail.put"}
           => IF last'.code \in {200, 201}
              THEN ~NegativeMinimumRequest
              ELSE store' = store ]_vars

\* C18 witness: a request with a negative minimum has just been answered 500
\* while a time tier created by template 1, whose time tier has minimum 2, and
\* a time tier of the other fundraiser are stored
C18_Witness ==
    /\ last.code = 500
    /\ last.op \in {"RewardTierList.post", "RewardTierDetail.put"}
    /\ \E r, s \in DOMAIN rewardTier :
          /\ rewardTier[r].reward_type = "time" /\ rewardTier[r].fundraiser = 1
          /\ rewardTier[s].reward_type = "time" /\ rewardTier[s].fundraiser = 2
    /\ \E n \in DOMAIN timeNeed : timeNeed[n].reward_tier # NULL

---------------------------------------------------------------------------
(* SpecOwner: who writes under a fundraiser.  Anybody sends the requests   *)
(* that write a Fundraiser, a Need, a MoneyNeed or a RewardTier, on any    *)
(* row and naming any fundraiser or need.                                  *)

OwnerRequest(u) ==
    \/ \E f \in FundraiserIds : FundraiserDetail_put(u, f, "X")
    \/ \E fr \in FundraiserIds, type \in {"money", "time"} : NeedList_post(u, fr, type)
    \/ \E n \in NeedIds, fr \in FundraiserIds, type \in {"money", "time"} :
            NeedDetail_put(u, n, fr, type)
    \/ \E n \in NeedIds : NeedDetail_delete(u, n)
    \/ \E n \in NeedIds : MoneyNeedList_post(u, n, 1)
    \/ \E n, new_need \in NeedIds : MoneyNeedDetail_put(u, n, new_need, 1)
    \/ \E fr \in FundraiserIds : rewardTier = NoRows /\ RewardTierList_post(u, fr, "money", 1)
    \/ \E t \in TierIds, fr \in FundraiserIds : RewardTierDetail_put(u, t, fr, "money", 1)
    \/ \E t \in TierIds : RewardTierDetail_delete(u, t)

NextOwner == \E u \in Actors : OwnerRequest(u)

SpecOwner == InitNeedDelete /\ [][NextOwner]_vars

\* the Fundraiser row f and the rows chained under it
RowsUnder(f) ==
    LET needs == {n \in DOMAIN need : need[n].fundraiser = f}
        tiers == {t \in DOMAIN rewardTier : rewardTier[t].fundraiser = f}
    IN << IF f \in DOMAIN fundraiser THEN <<fundraiser[f]>> ELSE << >>,
          [n \in needs |-> need[n]],
          [n \in needs \cap DOMAIN moneyNeed |-> moneyNeed[n]],
          [n \in needs \cap DOMAIN timeNeed |-> timeNeed[n]],
          [n \in needs \cap DOMAIN itemNeed |-> itemNeed[n]],
          [t \in tiers |-> rewardTier[t]] >>

\* C17: a request that creates, changes, deletes or attaches a row under a
\* fundraiser F (F itself, a Need, a need detail or a RewardTier of F, before
\* or after the request) is by the owner of F; in particular an update of a
\* Need cannot move it under a fundraiser the actor does not own.
C17_OnlyOwnerWritesUnderFundraiser ==
    [][ store' # store
        => \A u \in Actors :
              OwnerRequest(u)
                 => \A f \in DOMAIN fundraiser :
                       RowsUnder(f)' # RowsUnder(f) => fundraiser[f].owner = u ]_vars

\* C20: the need_type of a Need never changes after its creation, whatever
\* the requests, an update of the Need by the owner of its fundraiser
\* included.
C20_NeedTypeNeverChanges ==
    [][ \A n \in DOMAIN need \cap DOMAIN need' :
            need'[n].need_type = need[n].need_type ]_vars

---------------------------------------------------------------------------
(* SpecDetailKinds: the details of a pledge.  User u2 pledges to fundraiser *)
(* 1, with one of its two time needs or none, and posts money, time and    *)
(* item details for the pledges.                                           *)

NextDetailKinds ==
    \/ \E nd \in NeedRefs : PledgeList_post("u2", 1, nd, "pending", NULL)
    \/ \E p \in PledgeIds : MoneyPledgeList_post("u2", p, 1)
    \/ \E p \in PledgeIds : TimePledgeList_post("u2", p, 1, 2)
    \/ \E p \in PledgeIds : ItemPledgeList_post("u2", p, 1, "donation")

SpecDetailKinds == InitTime /\ [][NextDetailKinds]_vars

\* the kinds of detail the pledge p has
DetailKinds(p) ==
    {k \in TYPE_CHOICES :
        \/ k = "money" /\ p \in DOMAIN moneyPledge
        \/ k = "time" /\ p \in DOMAIN timePledge
        \/ k = "item" /\ p \in DOMAIN itemPledge}

\* C19: in every reachable state a pledge has at most one detail among money,
\* time and item, and the detail of a pledge that has a need is of the need's
\* need_type.
C19_OneDetailOfNeedType ==
    \A p \in DOMAIN pledge :
        /\ Cardinality(DetailKinds(p)) <= 1
        /\ pledge[p].need # NULL => DetailKinds(p) \subseteq {need[pledge[p].need].need_type}

---------------------------------------------------------------------------
(* SpecValid: the values of pledge details.  User u2 pledges to fundraiser 1 *)
(* and gives each pledge one detail, then updates it; the requests carry   *)
(* valid and invalid amounts, quantities and datetimes, and an update of a *)
(* time pledge carries one of the two datetimes or both.                   *)

BadAmounts == {-2, 0}
Datetimes == {1, 2, 3}

\* an update of the time pledge p that carries start_datetime only,
\* end_datetime only, or both
TimePledgeUpdate(p, start, end) ==
    \/ TimePledgeDetail_put("u2", p, p, start, timePledge[p].end_datetime)
    \/ TimePledgeDetail_put("u2", p, p, timePledge[p].start_datetime, end)
    \/ TimePledgeDetail_put("u2", p, p, start, end)

NextValid ==
    \/ PledgeList_post("u2", 1, NULL, "pending", NULL)
    \/ \E p \in PledgeIds, amount \in BadAmounts \cup {1} :
            ~HasDetail(p) /\ MoneyPledgeList_post("u2", p, amount)
    \/ \E p \in PledgeIds, amount \in BadAmounts \cup {2} :
            MoneyPledgeDetail_put("u2", p, p, amount)
    \/ \E p \in PledgeIds, start \in Datetimes, end \in Datetimes :
            ~HasDetail(p) /\ TimePledgeList_post("u2", p, start, end)
    \/ \E p \in DOMAIN timePledge, start \in Datetimes, end \in Datetimes :
            TimePledgeUpdate(p, start, end)
    \/ \E p \in PledgeIds, quantity \in BadAmounts \cup {1} :
            ~HasDetail(p) /\ ItemPledgeList_post("u2", p, quantity, "donation")
    \/ \E p \in PledgeIds, quantity \in BadAmounts \cup {2} :
            ItemPledgeDetail_put("u2", p, p, quantity, "loan")

SpecValid == InitNeedDelete /\ [][NextValid]_vars

\* every stored detail has a valid value
DetailsValid ==
    /\ \A p \in DOMAIN moneyPledge : moneyPledge[p].amount > 0
    /\ \A p \in DOMAIN itemPledge : itemPledge[p].quantity > 0
    /\ \A p \in DOMAIN timePledge :
          timePledge[p].end_datetime > timePledge[p].start_datetime

\* the step is the answer to a request whose values, with the stored ones
\* for the fields an update leaves out, are not valid
InvalidDetailRequest ==
    \/ \E p \in PledgeIds, amount \in BadAmounts :
          \/ MoneyPledgeList_post("u2", p, amount)
          \/ MoneyPledgeDetail_put("u2", p, p, amount)
          \/ ItemPledgeList_post("u2", p, amount, "donation")
          \/ ItemPledgeDetail_put("u2", p, p, amount, "loan")
    \/ \E p \in PledgeIds, start \in Datetimes, end \in Datetimes :
          \/ end <= start /\ TimePledgeList_post("u2", p, start, end)
          \/ /\ p \in DOMAIN timePledge
             /\ \/ timePledge[p].end_datetime <= start
                      /\ TimePledgeDetail_put("u2", p, p, start, timePledge[p].end_datetime)
                \/ end <= timePledge[p].start_datetime
                      /\ TimePledgeDetail_put("u2", p, p, timePledge[p].start_datetime, end)
                \/ end <= start /\ TimePledgeDetail_put("u2", p, p, start, end)

DetailWrites ==
    {"MoneyPledgeList.post", "MoneyPledgeDetail.put", "TimePledgeList.post",
     "TimePledgeDetail.put", "ItemPledgeList.post", "ItemPledgeDetail.put"}

\* C21: after any creates and updates every stored MoneyPledge has amount > 0,
\* every ItemPledge quantity > 0 and every TimePledge end_datetime after
\* start_datetime, an update that carries one datetime being compared with
\* the stored other one; a request that would break this is rejected (it is
\* not answered 200 or 201) and a rejected request writes nothing.
C21_DetailValuesValid ==
    /\ []DetailsValid
    /\ [][ last'.op \in DetailWrites
           => IF last'.code \in {200, 201}
              THEN ~InvalidDetailRequest
              ELSE store' = store ]_vars

\* C21 witness: an update of a time pledge has just been refused; its row has
\* been moved to (2, 3) by an earlier update, and a money pledge updated to
\* amount 2 is stored
C21_Witness ==
    /\ last = [op |-> "TimePledgeDetail.put", code |-> 400]
    /\ \E p \in DOMAIN timePledge :
          timePledge[p] = [start_datetime |-> 2, end_datetime |-> 3]
    /\ \E p \in DOMAIN moneyPledge : moneyPledge[p].amount = 2

---------------------------------------------------------------------------
(* SpecName: PledgeSerializer.get_reward_tier_name called on a pledge of    *)
(* fundraiser 1 with any need or none, any stored tier, with or without an *)
(* item detail, the time and item needs with or without their details and  *)
(* tiers.                                                                  *)

\* tier.name if tier else None: the name of a tier is written as the tier
name_of(tier) == IF tier = NULL THEN NULL ELSE tier

\* a name taken from the pledge's stored tier, whatever the need
get_reward_tier_name_stored(p) == name_of(pledge[p].reward_tier)

\* serializers.py 419-465, in the order of its returns
get_reward_tier_name(p) ==
    LET obj == pledge[p]
        nd == obj.need
    IN IF nd = NULL THEN name_of(obj.reward_tier)
       ELSE IF need[nd].need_type = "money" THEN name_of(obj.reward_tier)
       ELSE IF need[nd].need_type = "item"
           THEN IF nd \notin DOMAIN itemNeed \/ p \notin DOMAIN itemPledge THEN NULL
                ELSE IF itemPledge[p].mode = "donation"
                    THEN name_of(itemNeed[nd].donation_reward_tier)
                ELSE IF itemPledge[p].mode = "loan"
                    THEN name_of(itemNeed[nd].loan_reward_tier)
                ELSE NULL
       ELSE IF need[nd].need_type = "time"
           THEN IF nd \in DOMAIN timeNeed /\ timeNeed[nd].reward_tier # NULL
                THEN name_of(timeNeed[nd].reward_tier)
                ELSE NULL
       ELSE NULL

NameFn == "get_reward_tier_name"

InitName ==
    /\ fundraiser = TwoFundraisers
    /\ rewardTier = (1 :> Tier(1, "time", NULL)) @@ (2 :> Tier(1, "item", NULL))
                    @@ (3 :> Tier(1, "money", 1))
    /\ need = (1 :> [fundraiser |-> 1, need_type |-> "money"])
              @@ (2 :> [fundraiser |-> 1, need_type |-> "time"])
              @@ (3 :> [fundraiser |-> 1, need_type |-> "item"])
    /\ moneyNeed = NoRows
    /\ template = NoRows
    /\ \E tier \in {NULL, 1} : timeNeed \in {NoRows, 2 :> [reward_tier |-> tier]}
    /\ \E donation \in {NULL, 2}, loan \in {NULL, 1} :
          itemNeed \in {NoRows, 3 :> [mode |-> "either", donation_reward_tier |-> donation,
                                      loan_reward_tier |-> loan]}
    /\ \E nd \in {NULL, 1, 2, 3}, tier \in {NULL, 1, 2, 3} :
          pledge = 1 :> [supporter |-> "u2", fundraiser |-> 1, need |-> nd,
                         status |-> "pending", reward_tier |-> tier]
    /\ moneyPledge = NoRows
    /\ timePledge = NoRows
    /\ \E mode \in ItemPledge_MODE_CHOICES :
          itemPledge \in {NoRows, 1 :> [quantity |-> 1, mode |-> mode]}
    /\ last = Boot
    /\ req = NoRequests
    /\ call = [fn |-> NameFn, pledge |-> 1, called |-> FALSE, name |-> NULL]

NameCall ==
    /\ ~call.called
    /\ call' = [call EXCEPT !.called = TRUE, !.name = get_reward_tier_name(call.pledge)]
    /\ UNCHANGED <<store, last, req>>

SpecName == InitName /\ [][NameCall]_vars

\* the need_type of the need of pledge p, "none" without a need
NeedTypeOf(p) ==
    IF pledge[p].need = NULL THEN "none" ELSE need[pledge[p].need].need_type

\* the tier the item need of pledge p gives for the mode of the pledge's own
\* item detail; null when the need or the pledge has no item detail
ItemModeTier(p) ==
    LET nd == pledge[p].need
    IN IF nd \in DOMAIN itemNeed /\ p \in DOMAIN itemPledge
       THEN CASE itemPledge[p].mode = "donation" -> itemNeed[nd].donation_reward_tier
              [] itemPledge[p].mode = "loan" -> itemNeed[nd].loan_reward_tier
       ELSE NULL

\* C22: the name read for a pledge is that of its stored reward_tier when the
\* pledge is on a money need or has no need; that of the item need's donation
\* or loan tier, by the mode of the pledge's item detail, when it is on an
\* item need (null without the need's or the pledge's item detail or without
\* that tier), whatever tier is stored; that of the time need's tier when it
\* is on a time need, whatever tier is stored; and reading it changes no row.
C22_RewardTierNameByNeedType ==
    /\ [](call.called
            => call.name =
                 CASE NeedTypeOf(call.pledge) \in {"money", "none"} ->
                          pledge[call.pledge].reward_tier
                   [] NeedTypeOf(call.pledge) = "item" -> ItemModeTier(call.pledge)
                   [] NeedTypeOf(call.pledge) = "time" ->
                          IF pledge[call.pledge].need \in DOMAIN timeNeed
                          THEN timeNeed[pledge[call.pledge].need].reward_tier
                          ELSE NULL)
    /\ [][call'.called => store' = store]_vars

\* C22 witness: the name has been read for a pledge on the item need that
\* stores tier 3 and has a donation detail: the name is that of tier 2
C22_Witness ==
    /\ call.called /\ call.name = 2
    /\ pledge[1].need = 3 /\ pledge[1].reward_tier = 3
    /\ itemPledge[1].mode = "donation"

---------------------------------------------------------------------------
(* SpecStatus: the status of a pledge and the money total.  User u2 makes   *)
(* money pledges to fundraiser 1; the owner approves, declines and cancels *)
(* them, u2 cancels them; the tiers are recomputed.                        *)

NextStatus ==
    \/ PledgeList_post("u2", 1, NULL, "pending", NULL)
    \/ \E p \in PledgeIds, amount \in 1..MaxAmount : MoneyPledgeList_post("u2", p, amount)
    \/ \E p \in PledgeIds : PledgeApprove_post("u1", p)
    \/ \E p \in PledgeIds : PledgeDecline_post("u1", p)
    \/ \E u \in Users, p \in PledgeIds : PledgeCancel_post(u, p)
    \/ RecomputeCall("u2", 1)

SpecStatus == InitMoney /\ [][NextStatus]_vars

StatusChanges == {"PledgeApprove.post", "PledgeDecline.post", "PledgeCancel.post"}

\* C23: the total a recomputation selects the tier for is the sum of the
\* amounts of all the supporter's MoneyPledge rows on the fundraiser,
\* whatever the status of their pledges; approving, declining or cancelling a
\* pledge does not change the tier a recomputation selects.
C23_TotalCountsEveryStatus ==
    [][ /\ call' # call
           => /\ IsHighestQualifying(call'.reward_tier, 1, SupporterTotal("u2", 1))
              /\ \A p \in DOMAIN moneyPledge : pledge'[p].reward_tier = call'.reward_tier
        /\ (last'.op \in StatusChanges /\ last' # last)
           => select_reward_tier(rewardTier', 1, total_money(pledge', moneyPledge', "u2", 1))
                = select_reward_tier(rewardTier, 1, total_money(pledge, moneyPledge, "u2", 1))
      ]_vars

\* C23 witness: a recomputation has selected the tier at 3 for a declined
\* pledge of 2 and a cancelled pledge of 1
C23_Witness ==
    /\ call.fn = RecomputeFn /\ call.reward_tier = 2
    /\ \E p, q \in DOMAIN moneyPledge :
          /\ pledge[p].status = "declined" /\ moneyPledge[p].amount = 2
          /\ pledge[q].status = "cancelled" /\ moneyPledge[q].amount = 1
          /\ pledge[p].reward_tier = 2 /\ pledge[q].reward_tier = 2

---------------------------------------------------------------------------
(* Claims on what a delete removes (SpecDelete) *)

---------------------------------------------------------------------------
(* SpecFail: MoneyPledgeList.post requests whose reward recomputation may  *)
(* fail.  MoneyPledgeSerializer.create (serializers.py 184-187) runs the   *)
(* INSERT and then _update_rewards with no try / except and no             *)
(* transaction: a statement of the recomputation that raises (a database   *)
(* error) ends the request with a 500 answer, and under autocommit the     *)
(* INSERT is already committed.                                            *)

Recomputing == {"total_money", "reward_tier", "update"}

\* a statement of update_reward_tiers_for_supporter_and_fundraiser raises in
\* request r: the exception leaves MoneyPledgeSerializer.create and
\* MoneyPledgeList.post, and the answer is 500
update_reward_tiers_raises(r) ==
    /\ r \in DOMAIN req /\ req[r].pc \in Recomputing
    /\ Advance(r, "raised")
    /\ last' = [op |-> "MoneyPledgeList.post", code |-> 500]
    /\ UNCHANGED <<store, call>>

NextFail ==
    \/ \E p \in PledgeIds, amount \in 1..MaxAmount :
            MoneyPledgeList_post_is_valid("u1", p, amount)
    \/ \E r \in RequestIds :
        \/ MoneyPledgeSerializer_create(r)
        \/ update_reward_tiers_total_money(r)
        \/ update_reward_tiers_reward_tier(r)
        \/ update_reward_tiers_update(r)
        \/ update_reward_tiers_raises(r)

SpecFail == InitRace /\ [][NextFail]_vars

\* C25: when the reward recomputation of a MoneyPledge create fails, the
\* write that triggered it does not survive: after the failing step the
\* MoneyPledge row the request inserted is gone and the Pledge table is as
\* it was.
C25_FailedRecomputeLeavesNoWrite ==
    [][ \A r \in DOMAIN req :
            (req[r].pc \in Recomputing /\ req'[r].pc = "raised")
                => /\ req[r].pledge \notin DOMAIN moneyPledge'
                   /\ pledge' = pledge ]_vars

---------------------------------------------------------------------------
(* SpecLedger: one supporter, one fundraiser, fixed tiers.  User u2        *)
(* pledges to fundraiser 1 (money tiers at 1 and 3), gives the pledges     *)
(* money details, changes and moves them, and deletes details and pending  *)
(* pledges.                                                                *)

NextLedger ==
    \/ PledgeList_post("u2", 1, NULL, "pending", NULL)
    \/ \E p \in PledgeIds :
        \/ \E amount \in 1..MaxAmount : MoneyPledgeList_post("u2", p, amount)
        \/ \E q \in PledgeIds, amount \in 1..MaxAmount :
                MoneyPledgeDetail_put("u2", p, q, amount)
        \/ MoneyPledgeDetail_delete("u2", p)
        \/ PledgeDetail_delete("u2", p)

SpecLedger == InitMoney /\ [][NextLedger]_vars

\* C26: with the tiers fixed, whatever the supporter creates, updates and
\* deletes, every pledge that still has a money detail carries the highest
\* qualifying tier for the supporter's current total on the fundraiser; a
\* deletion that lowers the total does not leave the higher tier behind.
C26_StoredTierFollowsTotal ==
    \A p \in DOMAIN moneyPledge :
        IsHighestQualifying(pledge[p].reward_tier, pledge[p].fundraiser,
                            SupporterTotal(pledge[p].supporter, pledge[p].fundraiser))

---------------------------------------------------------------------------
(* SpecOverlap: transition requests that overlap.  User u2 has MaxPledges  *)
(* pending pledges to fundraiser 1, owned by u1.  PledgeCancel.post,       *)
(* PledgeApprove.post and PledgeDecline.post (views.py 2135-2216) each     *)
(* read the row, check it in memory and then save the status column, with  *)
(* no transaction, no select_for_update and no condition on the UPDATE,    *)
(* so another request's statements can run between the read and the save.  *)
(* Requests arrive while the pledge they name is pending.                  *)

InitOverlap ==
    /\ fundraiser = TwoFundraisers
    /\ rewardTier = NoRows
    /\ need = NoRows
    /\ moneyNeed = NoRows
    /\ template = NoRows
    /\ timeNeed = NoRows
    /\ itemNeed = NoRows
    /\ pledge = [p \in PledgeIds |->
                    [supporter |-> "u2", fundraiser |-> 1, need |-> NULL,
                     status |-> "pending", reward_tier |-> NULL]]
    /\ moneyPledge = NoRows
    /\ timePledge = NoRows
    /\ itemPledge = NoRows
    /\ last = Boot
    /\ call = NoCall
    /\ req = NoRequests

\* a request that passed its checks waits to save `target`
Accept(u, p, op, target) ==
    req' = Put(req, Cardinality(DOMAIN req) + 1,
               [user |-> u, pledge |-> p, op |-> op, target |-> target, pc |-> "save"])

\* PledgeCancel.post up to its save: the SELECT and the checks on the row read
PledgeCancel_post_get(u, p) ==
    /\ DOMAIN req # RequestIds
    /\ p \in DOMAIN pledge /\ pledge[p].status = "pending"
    /\ LET is_supporter == pledge[p].supporter = u
           is_owner == fundraiser[pledge[p].fundraiser].owner = u
       IN IF ~(is_supporter \/ is_owner)
          THEN last' = [op |-> "PledgeCancel.post", code |-> 403] /\ UNCHANGED req
          ELSE IF is_supporter /\ pledge[p].status # "pending"
          THEN last' = [op |-> "PledgeCancel.post", code |-> 400] /\ UNCHANGED req
          ELSE Accept(u, p, "PledgeCancel.post", "cancelled") /\ UNCHANGED last
    /\ UNCHANGED <<store, call>>

\* PledgeApprove.post up to its save
PledgeApprove_post_get(u, p) ==
    /\ DOMAIN req # RequestIds
    /\ p \in DOMAIN pledge /\ pledge[p].status = "pending"
    /\ IF fundraiser[pledge[p].fundraiser].owner # u
       THEN last' = [op |-> "PledgeApprove.post", code |-> 403] /\ UNCHANGED req
       ELSE Accept(u, p, "PledgeApprove.post", "approved") /\ UNCHANGED last
    /\ UNCHANGED <<store, call>>

\* PledgeDecline.post up to its save
PledgeDecline_post_get(u, p) ==
    /\ DOMAIN req # RequestIds
    /\ p \in DOMAIN pledge /\ pledge[p].status = "pending"
    /\ IF fundraiser[pledge[p].fundraiser].owner # u
       THEN last' = [op |-> "PledgeDecline.post", code |-> 403] /\ UNCHANGED req
       ELSE Accept(u, p, "PledgeDecline.post", "declined") /\ UNCHANGED last
    /\ UNCHANGED <<store, call>>

\* pledge.save(update_fields=["status"]) of request r and its 200 answer: an
\* UPDATE of the status column by primary key
Pledge_save_status(r) ==
    /\ r \in DOMAIN req /\ req[r].pc = "save"
    /\ pledge' = [pledge EXCEPT ![req[r].pledge].status = req[r].target]
    /\ Advance(r, "done")
    /\ last' = [op |-> req[r].op, code |-> 200]
    /\ UNCHANGED <<fundraiser, rewardTier, need, moneyNeed, timeNeed, itemNeed, template,
                   moneyPledge, timePledge, itemPledge, call>>

NextOverlap ==
    \/ \E u \in Users, p \in PledgeIds :
        \/ PledgeCancel_post_get(u, p)
        \/ PledgeApprove_post_get(u, p)
        \/ PledgeDecline_post_get(u, p)
    \/ \E r \in RequestIds : Pledge_save_status(r)

SpecOverlap == InitOverlap /\ [][NextOverlap]_vars

\* the role in which user u acts on pledge p
actor_role(u, p) ==
    IF pledge[p].supporter = u THEN "supporter"
    ELSE IF fundraiser[pledge[p].fundraiser].owner = u THEN "owner"
    ELSE "none"

\* C27: of the transition requests that overlap on one pending pledge at
\* most one takes effect, and every step of the pledge's persisted status is
\* a transition that the table allows to the actor who made it.
C27_OverlappingTransitionsOneWins ==
    /\ [](\A p \in DOMAIN pledge :
            Cardinality({r \in DOMAIN req : req[r].pledge = p /\ req[r].pc = "done"}) <= 1)
    /\ [][ \A r \in DOMAIN req :
            (req[r].pc = "save" /\ req'[r].pc = "done")
                => ensure_allowed_transition(pledge[req[r].pledge].status, req[r].target,
                                             actor_role(req[r].user, req[r].pledge)) = "ok"
       ]_vars

---------------------------------------------------------------------------
(* SpecApply: ApplyTemplateToFundraiser.post requests that overlap.  The   *)
(* view looks the fundraiser up, tests that it has no Need and no          *)
(* RewardTier and looks the template up (views.py 1801-1826) before it     *)
(* opens transaction.atomic (1829); the test takes no lock, so the         *)
(* statements of another request can run between the test and the writes.  *)

\* steps 1-3 of the view for a new request: everything before the transaction
ApplyTemplateToFundraiser_post_checks(u, f, t) ==
    LET op == "ApplyTemplateToFundraiser.post"
    IN /\ DOMAIN req # RequestIds
       /\ IF f \notin DOMAIN fundraiser \/ fundraiser[f].owner # u
          THEN last' = [op |-> op, code |-> 404] /\ UNCHANGED req
          ELSE IF \/ \E n \in DOMAIN need : need[n].fundraiser = f
                  \/ \E r \in DOMAIN rewardTier : rewardTier[r].fundraiser = f
          THEN last' = [op |-> op, code |-> 400] /\ UNCHANGED req
          ELSE IF t \notin DOMAIN template \/ ~template[t].is_active
          THEN last' = [op |-> op, code |-> 404] /\ UNCHANGED req
          ELSE /\ req' = Put(req, Cardinality(DOMAIN req) + 1,
                             [user |-> u, fundraiser |-> f, template |-> t, pc |-> "atomic"])
               /\ UNCHANGED last
       /\ UNCHANGED <<store, call>>

\* steps 4-6 of request r: the block under transaction.atomic, which commits
\* all its rows or, when RewardTier.save or a missing-field guard raises, none
ApplyTemplateToFundraiser_post_atomic(r) ==
    LET op == "ApplyTemplateToFundraiser.post"
    IN /\ r \in DOMAIN req /\ req[r].pc = "atomic"
       /\ LET f == req[r].fundraiser
              tpl == template[req[r].template]
          IN /\ Room(tpl)
             /\ IF \E trt \in DOMAIN tpl.template_reward_tiers :
                      RewardTier_clean_raises(
                          tpl.template_reward_tiers[trt].reward_type,
                          tpl.template_reward_tiers[trt].minimum_contribution_value)
                THEN /\ Advance(r, "raised")
                     /\ last' = [op |-> op, code |-> 500]
                     /\ UNCHANGED store
                ELSE IF \E i \in 1..Len(tpl.template_needs) : missing(tpl.template_needs[i])
                THEN /\ Advance(r, "raised")
                     /\ last' = [op |-> op, code |-> 400]
                     /\ UNCHANGED store
                ELSE /\ CopyTopLevel(f, tpl)
                     /\ CopyRewardTiers(f, tpl)
                     /\ CopyNeeds(f, tpl)
                     /\ Advance(r, "applied")
                     /\ last' = [op |-> op, code |-> 200]
                     /\ UNCHANGED <<template, pledge, moneyPledge, timePledge, itemPledge>>
       /\ UNCHANGED call

NextApply ==
    \/ \E u \in Users, f \in FundraiserIds, t \in DOMAIN template :
            ApplyTemplateToFundraiser_post_checks(u, f, t)
    \/ \E r \in RequestIds : ApplyTemplateToFundraiser_post_atomic(r)

SpecApply == InitTemplate /\ [][NextApply]_vars

\* C28: of the applyTemplate requests that overlap on one empty fundraiser
\* at most one materializes: the fundraiser never holds the reward tiers and
\* needs of more than one template application.
C28_OneApplicationPerFundraiser ==
    \A f \in DOMAIN fundraiser :
        Cardinality({r \in DOMAIN req :
                        req[r].fundraiser = f /\ req[r].pc = "applied"}) <= 1

---------------------------------------------------------------------------
(* SpecForeign: where a pledge's tier comes from.  The owners create       *)
(* reward tiers, u1 creates time needs on fundraiser 1 and gives them      *)
(* TimeNeed details naming any reward tier, u2 pledges to fundraiser 1     *)
(* without naming a tier and gives the pledges time details.               *)

\* TimeNeedList.post.  is_valid (TimeNeedSerializer, fields "__all__"): the
\* need exists and has no TimeNeed yet (one-to-one), reward_tier is null or
\* an existing RewardTier, of whatever fundraiser, and end_datetime is after
\* start_datetime; then the owner check on the need's fundraiser.
TimeNeedList_post(u, n, start, end, reward_tier) ==
    IF u = Anonymous THEN Reject("TimeNeedList.post", 401)
    ELSE IF \/ n \notin DOMAIN need \/ n \in DOMAIN timeNeed
            \/ reward_tier \notin DOMAIN rewardTier \cup {NULL}
            \/ end <= start
        THEN Reject("TimeNeedList.post", 400)
    ELSE IF ~IsOwnerOrReadOnly(u, need[n].fundraiser) THEN Reject("TimeNeedList.post", 403)
    ELSE /\ timeNeed' = Put(timeNeed, n, [reward_tier |-> reward_tier])
         /\ UNCHANGED <<fundraiser, rewardTier, need, moneyNeed, itemNeed, template,
                        pledge, moneyPledge, timePledge, itemPledge>>
         /\ Answer("TimeNeedList.post", 201)

NextForeign ==
    \/ \E fr \in FundraiserIds : RewardTierList_post(fundraiser[fr].owner, fr, "time", NULL)
    \/ NeedList_post("u1", 1, "time")
    \/ \E n \in NeedIds, tier \in TierRefs : TimeNeedList_post("u1", n, 1, 2, tier)
    \/ \E nd \in NeedRefs : PledgeList_post("u2", 1, nd, "pending", NULL)
    \/ \E p \in PledgeIds : TimePledgeList_post("u2", p, 1, 2)

SpecForeign == InitNeedDelete /\ [][NextForeign]_vars

\* C29: a pledge's reward_tier, when it is not null, is a RewardTier of the
\* pledge's own fundraiser, whichever allocation path assigned it.
C29_TierOfOwnFundraiser ==
    \A p \in DOMAIN pledge :
        pledge[p].reward_tier # NULL
            => /\ pledge[p].reward_tier \in DOMAIN rewardTier
               /\ rewardTier[pledge[p].reward_tier].fundraiser = pledge[p].fundraiser

---------------------------------------------------------------------------
(* Claims on the stored tier as the total grows (SpecLedger) *)

\* the step is a successful money create, or a successful money update that
\* moves no detail and lowers no amount
TotalGrows ==
    /\ \/ last'.op = "MoneyPledgeList.post" /\ last'.code = 201
       \/ last'.op = "MoneyPledgeDetail.put" /\ last'.code = 200
    /\ DOMAIN moneyPledge \subseteq DOMAIN moneyPledge'
    /\ \A p \in DOMAIN moneyPledge : moneyPledge'[p].amount >= moneyPledge[p].amount
    /\ moneyPledge' # moneyPledge

\* C30: with the tiers fixed, creating a further money pledge or raising the
\* amount of one never replaces the tier stored on the supporter's money
\* pledges by null or by a tier with a lower minimum_contribution_value.
C30_StoredTierMonotoneInTotal ==
    [][ TotalGrows
        => \A r \in DOMAIN moneyPledge :
              pledge[r].reward_tier # NULL
                => /\ pledge'[r].reward_tier # NULL
                   /\ rewardTier[pledge'[r].reward_tier].minimum_contribution_value
                        >= rewardTier[pledge[r].reward_tier].minimum_contribution_value
      ]_vars

===========================================================================
